---- MODULE Spec2Model ----
(***************************************************************************)
(* Delta-Utils: the growable vector (struct-handle and fat-pointer         *)
(* variants of utils_src/vector.c) and the byte-keyed dictionary.          *)
(*                                                                         *)
(* uint32_t fields are held as their two's-complement residue: a field     *)
(* whose C value is 2^32 - k (k small) is held as -k, and unsigned         *)
(* comparison is U32Lt.  Memory is modelled per slot (cell): `mem` is the  *)
(* content of the slots the allocator actually gave out, so Len(mem) is    *)
(* the allocated slot count, which the `capacity` field may disagree with. *)
(***************************************************************************)
EXTENDS Integers, Sequences, FiniteSets, TLC

VARIABLES
    variant,    \* "struct" (Vector *) or "fat" (pointer to the data, VecMeta in front)
    requested,  \* history: the capacity_opt given to vecNew
    vec,        \* the vector: capacity, length, mem, handle, status
    vlast,      \* the last call on the vector: its arguments and what it returned
    pushed,     \* history: the values pushed since vecNew, while pushOnly
    pushOnly,   \* history: vecNew returned a vector, only pushes that went through since
    dict,       \* the dictionary: size, free_key/free_val set, buckets, status
    dlast,      \* the last call on the dictionary
    latest,     \* history: key bytes -> the value of the most recent dictSet
    handed,     \* history: key references handed to dictSet
    frees,      \* history: what free_key, free_val and free were called on
    nsets,      \* history: number of dictSet calls so far
    nomem,      \* history: an entry allocation of dictSet has failed
    b64,        \* base64: the input bytes, the encoder's and the decoder's output
    md5,        \* md5Digest: the message and the digest written to out
    args,       \* parseArgs: the ArgSpec table, argv, the destinations, the result
    str,        \* strCount / strSplit: the arguments, the loop variables, the result
    alloc       \* byte counts: cell_size, capacity and what the allocator was asked for

vecVars  == <<variant, requested, vec, vlast, pushed, pushOnly>>
dictVars == <<dict, dlast, latest, handed, frees, nsets, nomem>>
calcVars == <<b64, md5, args, str, alloc>>
vars     == <<variant, requested, vec, vlast, pushed, pushOnly,
              dict, dlast, latest, handed, frees, nsets, nomem,
              b64, md5, args, str, alloc>>

(***************************************************************************)
(* Bounds of the model                                                     *)
(***************************************************************************)
MaxLen     == 3     \* pushes are explored up to this length
MaxReserve == 3     \* vecReserve is called with 0..MaxReserve
MaxWrap    == 2     \* pops below zero are explored this deep
MaxSets    == 2     \* dictSet calls per run

DefaultCapacity == 4

Vals     == {1, 2}        \* cell contents a caller stores (cell_size bytes, non-zero)
Zero     == 0             \* a zero-filled cell
Junk     == 0 - 1         \* an indeterminate cell (never written since allocation)
VecCellSizes == {0, 4}    \* cell_size given to vecNew: none, sizeof(int)
\* capacity_opt given to vecNew: 0, 1, 2 and, for the byte counts that wrap
\* with 4-byte cells, 2^30 and 2^30 + 1
InitCaps == {0, 1, 2, 1073741824, 1073741825}
\* idx given to vecSet and vecAt: 0..MaxLen and, for the byte offset that
\* wraps with 4-byte cells, 2^30
Indexes  == (0..MaxLen) \cup {1073741824}

(***************************************************************************)
(* uint32_t helpers.  Arithmetic is done on the two 16-bit halves of a     *)
(* value, W(hi, lo), so that every result is taken modulo 2^32 as in the   *)
(* build; Halves and Residue go between the halves and the residue a       *)
(* vector field is held as.                                                *)
(***************************************************************************)
W(hi, lo) == [hi |-> hi, lo |-> lo]

\* x + y modulo 2^32
Add32(x, y) ==
    LET lo == x.lo + y.lo
        hi == x.hi + y.hi + (lo \div 65536)
    IN  W(hi % 65536, lo % 65536)

\* a * b for a, b < 2^16, as a 32-bit value
Mul16(a, b) ==
    LET a1 == a \div 256   a0 == a % 256
        b1 == b \div 256   b0 == b % 256
        low == (a1 * b0 + a0 * b1) * 256 + a0 * b0
    IN  W(a1 * b1 + (low \div 65536), low % 65536)

\* cell_size * capacity in unsigned int
Mul32(cell_size, capacity) ==
    LET p0 == Mul16(cell_size, capacity.lo)
        p1 == Mul16(cell_size, capacity.hi)
    IN  W((p0.hi + p1.lo) % 65536, p0.lo)

\* vec->capacity *= 2
Double32(capacity) == Add32(capacity, capacity)

\* x < y on uint32_t
Lt32(x, y) == x.hi < y.hi \/ (x.hi = y.hi /\ x.lo < y.lo)

\* vec->length++ and vec->length--
Inc32(x) == Add32(x, W(0, 1))
Dec32(x) == Add32(x, W(\Hffff, \Hffff))

\* x - y on uint32_t
Sub32(x, y) == Add32(x, Inc32(W(65535 - y.hi, 65535 - y.lo)))

\* x / d on uint32_t, 0 < d < 2^16: the cells of d bytes a block of x bytes holds
Div32(x, d) ==
    LET r1 == x.hi % d
        x2 == r1 * 256 + (x.lo \div 256)
        x3 == (x2 % d) * 256 + (x.lo % 256)
    IN  W(x.hi \div d, (x2 \div d) * 256 + (x3 \div d))

\* the halves of a residue, and the residue of a value given by its halves
Halves(a)  == W((a \div 65536) % 65536, a % 65536)
Residue(x) == IF x.hi < 32768 THEN x.hi * 65536 + x.lo ELSE (x.hi - 65536) * 65536 + x.lo

U32Lt(a, b) == IF (a < 0) = (b < 0) THEN a < b ELSE b < 0

\* capacity *= 2, length + 1, length - 1 and new_capacity - capacity on
\* uint32_t fields
U32Double(a) == Residue(Double32(Halves(a)))
U32Inc(a)    == Residue(Inc32(Halves(a)))
U32Dec(a)    == Residue(Dec32(Halves(a)))
U32Sub(a, b) == Residue(Sub32(Halves(a), Halves(b)))

\* cell_size * n as the code computes a byte count or a byte offset: the
\* uint16_t is promoted to int, the product is taken in unsigned int
ByteCount(cell_size, n) == Mul32(cell_size, Halves(n))

\* the same count in cells: the number of whole cells a block of
\* cell_size * n bytes holds, and the cell the byte offset cell_size * n
\* falls in.  The cell sizes of the model (4 and 8) divide 2^32, so a
\* wrapped count is a whole number of cells and a wrapped offset is the
\* start of a cell.
Cells(cell_size, n) == Residue(Div32(ByteCount(cell_size, n), cell_size))

(***************************************************************************)
(* The allocator                                                           *)
(***************************************************************************)
\* realloc to n slots, successful: the common prefix is kept, new slots are
\* indeterminate.
Realloc(m, n) == [i \in 1..n |-> IF i <= Len(m) THEN m[i] ELSE Junk]

\* What realloc may do for a request of n slots.  "fail": NULL, old block
\* kept.  "inplace"/"moved": success.  A request of 0 bytes may also return
\* NULL after releasing the old block ("freed").
ReallocOutcomes(n) ==
    IF n = 0 THEN {"fail", "freed", "inplace"} ELSE {"fail", "inplace", "moved"}

Fill(n, x) == [i \in 1..n |-> x]

(***************************************************************************)
(* Struct-handle vector                                                    *)
(***************************************************************************)
\* no vector: what the caller holds when vecNew did not return one.
\* released: the data block was released by realloc(data, 0) and vec->data
\* still points at it.
NoVector(cell_size, status) ==
    [capacity |-> 0, length |-> 0, mem |-> <<>>, handle |-> "data",
     cell_size |-> cell_size, released |-> FALSE, status |-> status]

\* vecNew(cell_size, capacity_opt, do_clear); ok: the allocations went
\* through.  assert(cell_size > 0) comes first; a failed malloc returns NULL.
\* The block holds the cells of cell_size * capacity bytes, the product
\* taken in unsigned int (in front of them the VecMeta of the fat-pointer
\* vector, which is not part of mem).
vecNew(cell_size, capacity_opt, do_clear, ok) ==
    LET cap == IF capacity_opt = 0 THEN DefaultCapacity ELSE capacity_opt
    IN  IF ~(cell_size > 0) THEN NoVector(cell_size, "abort")
        ELSE IF ~ok THEN NoVector(cell_size, "null")
        ELSE [NoVector(cell_size, "live") EXCEPT
                 !.capacity = cap,
                 !.mem = Fill(Cells(cell_size, cap), IF do_clear THEN Zero ELSE Junk)]

\* memcpy of one cell to the given slot of the storage behind the data
\* pointer
StoreCell(v, slot, val) ==
    IF slot >= 0 /\ slot < Len(v.mem)
    THEN [v EXCEPT !.mem[slot + 1] = val]
    ELSE [v EXCEPT !.status = "ub_oob_write"]

\* the cell at data + (cell_size * idx), the offset taken in unsigned int
vecSet(v, idx, val) ==
    IF ~U32Lt(idx, v.length)
    THEN [v EXCEPT !.status = "abort"]
    ELSE StoreCell(v, Cells(v.cell_size, idx), val)

\* a returned pointer: the slot it refers to; ok is FALSE when the call
\* ended in a failed assert and returned nothing
Ref(slot) == [ok |-> TRUE, slot |-> slot]
NoRef     == [ok |-> FALSE, slot |-> 0]

vecAt(v, idx) == IF U32Lt(idx, v.length) THEN Ref(Cells(v.cell_size, idx)) ELSE NoRef

vecPush(v, val, ra) ==
    LET grown ==
            IF v.length = v.capacity
            THEN LET v1 == [v EXCEPT !.capacity = U32Double(v.capacity)]
                 IN  CASE v.released   -> [v1 EXCEPT !.status = "ub_realloc_freed"]
                       [] ra = "fail"  -> [v1 EXCEPT !.status = "return"]
                       [] ra = "freed" -> [v1 EXCEPT !.mem = <<>>, !.released = TRUE,
                                                     !.status = "return"]
                       [] OTHER        ->
                            [v1 EXCEPT !.mem = Realloc(v.mem,
                                                       Cells(v.cell_size, v1.capacity))]
            ELSE v
    IN  IF grown.status = "return"
        THEN [grown EXCEPT !.status = "live"]
        ELSE IF grown.status # "live" THEN grown
        ELSE LET v2 == [grown EXCEPT !.length = U32Inc(grown.length)]
             IN  vecSet(v2, U32Dec(v2.length), val)

\* assert(vec && vec->length > 0) on the uint32_t length
vecPop(v) ==
    IF v.length = 0
    THEN [v EXCEPT !.status = "abort"]
    ELSE [v EXCEPT !.length = U32Dec(v.length)]

\* the slot vecPop's returned pointer refers to
vecPopRef(v) == IF v.length # 0 THEN vecAt(v, U32Dec(v.length)) ELSE NoRef

\* realloc(vec->data, ...) on a block that an earlier realloc(data, 0)
\* released is undefined whatever the allocator would answer
vecReserve(v, new_capacity, do_clear, ra) ==
    CASE v.released   -> [v EXCEPT !.status = "ub_realloc_freed"]
      [] ra = "fail"  -> v
      [] ra = "freed" -> [v EXCEPT !.mem = <<>>, !.released = TRUE]
      [] OTHER ->
         LET cells == Cells(v.cell_size, new_capacity)
             m1 == Realloc(v.mem, cells)
             \* memset(vec->data + capacity * cell_size, 0,
             \*        (new_capacity - capacity) * cell_size) goes through the
             \* pointer realloc was given; offset and count are unsigned int
             off == Cells(v.cell_size, v.capacity)
             n   == Cells(v.cell_size, U32Sub(new_capacity, v.capacity))
             inside == off >= 0 /\ off <= cells /\ n >= 0 /\ n <= cells - off
             m2 == [i \in 1..cells |->
                      IF do_clear /\ ra = "inplace" /\ i > off /\ i - off <= n
                      THEN Zero ELSE m1[i]]
             st == IF ~do_clear \/ n = 0 THEN "live"
                   ELSE IF ~inside THEN "ub_oob_write"
                   ELSE IF ra = "moved" THEN "ub_use_after_free"
                   ELSE "live"
         IN  [v EXCEPT !.mem = m2, !.capacity = new_capacity, !.status = st]

\* vecFree(vec, purge_data): the storage and the Vector are released; the
\* caller's pointer is passed by value and keeps its old value, so a call on
\* a vector that was freed before reads and releases freed storage.
\* purge_data: __vecPurge first writes cell_size * capacity zero bytes (the
\* product in unsigned int) through vec->data, whatever the size of the
\* block behind it.
vecFree(v, purge_data) ==
    CASE v.status = "null"  -> v
      [] v.status = "freed" -> [v EXCEPT !.status = "ub_double_free"]
      [] v.released ->
           IF purge_data /\ ByteCount(v.cell_size, v.capacity) # W(0, 0)
           THEN [v EXCEPT !.status = "ub_use_after_free"]
           ELSE [v EXCEPT !.status = "ub_double_free"]
      [] purge_data /\ Cells(v.cell_size, v.capacity) > Len(v.mem) ->
           [v EXCEPT !.mem = <<>>, !.status = "ub_oob_write"]
      [] OTHER -> [v EXCEPT !.mem = <<>>, !.status = "freed"]

(***************************************************************************)
(* Fat-pointer vector (VecMeta in front of the data)                       *)
(***************************************************************************)
\* vecFree(data, free_fn) with free_fn = NULL: free(meta)
fat_vecFree(v) ==
    IF v.status = "freed"
    THEN [v EXCEPT !.status = "ub_double_free"]
    ELSE [v EXCEPT !.mem = <<>>, !.status = "freed"]

\* __vecPush: the capacity is doubled in uint32_t, the block is resized to
\* sizeof(VecMeta) + (capacity * cell_size) with the product in unsigned
\* int, the cell goes to data + (length * cell_size), offset in unsigned int
fat_vecPush(v, val, ra) ==
    LET grown ==
            IF v.length = v.capacity
            THEN LET v1 == [v EXCEPT !.capacity = U32Double(v.capacity)]
                 IN  IF ra = "fail"
                     THEN [v1 EXCEPT !.handle = "meta", !.status = "return"]
                     ELSE [v1 EXCEPT !.mem = Realloc(v.mem,
                                                     Cells(v.cell_size, v1.capacity))]
            ELSE v
    IN  IF grown.status = "return"
        THEN [grown EXCEPT !.status = "live"]
        ELSE LET v2 == StoreCell(grown, Cells(grown.cell_size, grown.length), val)
             IN  [v2 EXCEPT !.length = U32Inc(grown.length)]

fat_vecPop(v) == [v EXCEPT !.length = U32Dec(v.length)]

\* data + (v->length * v->cell_size) after v->length -= 1, both in 32 bits
fat_vecPopRef(v) == Ref(Cells(v.cell_size, U32Dec(v.length)))

fat_vecReserve(v, new_capacity, do_clear, ra) ==
    IF ra = "fail"
    THEN [v EXCEPT !.handle = "meta"]
    ELSE LET cells == Cells(v.cell_size, new_capacity)
             m1 == Realloc(v.mem, cells)
             \* memset(data + capacity * cell_size, 0, new_capacity * cell_size)
             \* on the new block; offset and count are unsigned int
             off == Cells(v.cell_size, v.capacity)
             m2 == [i \in 1..cells |->
                      IF do_clear /\ i > off THEN Zero ELSE m1[i]]
             st == IF do_clear /\ cells > 0 /\ off > 0
                   THEN "ub_oob_write" ELSE "live"
         IN  [v EXCEPT !.mem = m2, !.capacity = new_capacity, !.status = st]

\* every fat-pointer entry point starts with __VEC_GET_META(data): through
\* a handle that points at the VecMeta it reads in front of the block
ThroughHandle(v, w) ==
    IF v.handle = "data" THEN w ELSE [v EXCEPT !.status = "ub_bad_handle"]

\* the bytes behind a returned slot reference
CellAt(v, ref) ==
    IF ref.ok /\ ref.slot >= 0 /\ ref.slot < Len(v.mem)
    THEN v.mem[ref.slot + 1] ELSE Junk

(***************************************************************************)
(* Vector actions                                                          *)
(***************************************************************************)
NoPrev == [op |-> "none", val |-> 0, ra |-> "inplace", len0 |-> 0]

\* op: the call; val, idx, ra: its arguments and what realloc did; len0: the
\* length before it; ret, got: the pointer it returned and the cell behind
\* it; prev: for vecPop, the call made right before it; clr: do_clear of
\* vecReserve, purge_data of vecFree
NoCall == [op |-> "new", val |-> 0, idx |-> 0, ra |-> "inplace", clr |-> FALSE,
           len0 |-> 0, ret |-> NoRef, got |-> 0, prev |-> NoPrev]

Live == vec.status = "live"

Grows == vec.length = vec.capacity

\* the last call was a vecPush that returned after storing its cell outside
\* the block: the heap is damaged, the caller goes on
StoredOutside == vec.status = "ub_oob_write" /\ vlast.op = "push"

Push(val, ra) ==
    /\ Live
    /\ UNCHANGED <<dictVars, calcVars>>
    /\ vec.length < MaxLen
    /\ vec' = IF variant = "struct" THEN vecPush(vec, val, ra)
              ELSE ThroughHandle(vec, fat_vecPush(vec, val, ra))
    /\ vlast' = [NoCall EXCEPT !.op = "push", !.val = val, !.ra = ra,
                               !.len0 = vec.length]
    /\ LET went == vec'.status \in {"live", "ub_oob_write"} /\ vec'.length # vec.length
       IN  /\ pushOnly' = (pushOnly /\ went)
           /\ pushed' = IF pushOnly /\ went THEN Append(pushed, val) ELSE <<>>
    /\ UNCHANGED <<variant, requested, requested>>

\* vecPop on a live vector, and right after a vecPush that stored outside
\* the block
Pop ==
    /\ Live \/ StoredOutside
    /\ UNCHANGED <<dictVars, calcVars>>
    /\ vec.length > 0 - MaxWrap
    /\ vec' = IF variant = "struct" THEN vecPop(vec)
              ELSE ThroughHandle(vec, fat_vecPop(vec))
    /\ LET ref == IF variant = "struct" THEN vecPopRef(vec) ELSE fat_vecPopRef(vec)
       IN  vlast' = [NoCall EXCEPT !.op = "pop", !.len0 = vec.length,
                                   !.ret = ref, !.got = CellAt(vec, ref),
                                   !.prev = [op |-> vlast.op, val |-> vlast.val,
                                             ra |-> vlast.ra, len0 |-> vlast.len0]]
    /\ pushed' = <<>>
    /\ pushOnly' = FALSE
    /\ UNCHANGED <<variant, requested, requested>>

Set(idx, val) ==
    /\ Live
    /\ UNCHANGED <<dictVars, calcVars>>
    /\ vec' = ThroughHandle(vec, vecSet(vec, idx, val))
    /\ vlast' = [NoCall EXCEPT !.op = "set", !.idx = idx, !.val = val,
                               !.len0 = vec.length]
    /\ pushed' = <<>>
    /\ pushOnly' = FALSE
    /\ UNCHANGED <<variant, requested, requested>>

At(idx) ==
    /\ Live
    /\ UNCHANGED <<dictVars, calcVars>>
    /\ vec' = ThroughHandle(vec, IF ~vecAt(vec, idx).ok
                                 THEN [vec EXCEPT !.status = "abort"] ELSE vec)
    /\ vlast' = [NoCall EXCEPT !.op = "at", !.idx = idx, !.len0 = vec.length,
                               !.ret = vecAt(vec, idx),
                               !.got = CellAt(vec, vecAt(vec, idx))]
    /\ UNCHANGED <<variant, requested, pushed, pushOnly>>

Reserve(n, do_clear, ra) ==
    /\ Live
    /\ UNCHANGED <<dictVars, calcVars>>
    /\ vec' = IF variant = "struct" THEN vecReserve(vec, n, do_clear, ra)
              ELSE ThroughHandle(vec, fat_vecReserve(vec, n, do_clear, ra))
    /\ vlast' = [NoCall EXCEPT !.op = "reserve", !.idx = n, !.ra = ra,
                               !.clr = do_clear, !.len0 = vec.length]
    /\ pushed' = <<>>
    /\ pushOnly' = FALSE
    /\ UNCHANGED <<variant, requested, requested>>

\* vecFree on the pointer the caller holds: the vector may be live or may
\* have been freed by an earlier vecFree
Free(purge_data) ==
    /\ vec.status \in {"live", "freed"}
    /\ UNCHANGED <<dictVars, calcVars>>
    /\ vec' = IF variant = "struct" THEN vecFree(vec, purge_data)
              ELSE IF vec.status = "freed" THEN fat_vecFree(vec)
              ELSE ThroughHandle(vec, fat_vecFree(vec))
    /\ vlast' = [NoCall EXCEPT !.op = "free", !.clr = purge_data,
                               !.len0 = vec.length]
    /\ pushed' = <<>>
    /\ pushOnly' = FALSE
    /\ UNCHANGED <<variant, requested, requested>>

\* vecFree(NULL): returns at once
FreeNull ==
    /\ vec.status \in {"live", "freed", "null"}
    /\ vlast.op # "free_null"
    /\ UNCHANGED <<dictVars, calcVars>>
    /\ vlast' = [NoCall EXCEPT !.op = "free_null", !.len0 = vec.length]
    /\ UNCHANGED <<variant, requested, vec, pushed, pushOnly>>

(***************************************************************************)
(* Dictionary                                                              *)
(***************************************************************************)
DU_NBUCKET_SMALL == 32

NULL  == 0                \* the null value pointer
Unset == 0 - 1            \* history: the key was never given to dictSet

DictVals  == {NULL, 1, 2} \* value pointers a caller passes
DictSizes == {0, 2, DU_NBUCKET_SMALL}

\* Key buffers of the caller: id names the buffer (the pointer), bytes its
\* content; key_len is Len(bytes).  Buffers 1 and 2 hold equal bytes.
KeyRefs == { [id |-> 1, bytes |-> <<97>>],
             [id |-> 2, bytes |-> <<97>>],
             [id |-> 3, bytes |-> <<98>>],
             [id |-> 4, bytes |-> <<97, 98, 99, 100, 101>>] }
NullKey == [id |-> 0, bytes |-> <<>>]

KeyBytes == {k.bytes : k \in KeyRefs}

\* uint32_t as two 16-bit halves
RECURSIVE Xor(_, _)
Xor(a, b) ==
    IF a = 0 THEN b
    ELSE IF b = 0 THEN a
    ELSE 2 * Xor(a \div 2, b \div 2) + (((a % 2) + (b % 2)) % 2)

\* hash = ((hash << 5) + hash) ^ byte, modulo 2^32
HashStep(h, byte) ==
    LET lo33 == h.lo * 33
        hi33 == h.hi * 33 + (lo33 \div 65536)
    IN  [hi |-> hi33 % 65536, lo |-> Xor(lo33 % 65536, byte)]

RECURSIVE HashFrom(_, _, _)
HashFrom(h, bytes, i) ==
    IF i > Len(bytes) THEN h ELSE HashFrom(HashStep(h, bytes[i]), bytes, i + 1)

\* the bucket index; size = 0 is a division by zero, reported as -1
dictHashBytes(bytes, size) ==
    LET h == HashFrom([hi |-> 5381 \div 65536, lo |-> 5381 % 65536], bytes, 1)
    IN  IF size = 0 THEN 0 - 1
        ELSE (((h.hi % size) * (65536 % size)) + (h.lo % size)) % size

\* key comparison by buffer address instead of content
dictIsKeyEqualByPointer(k1, k2) == k1.id = k2.id

dictIsKeyEqual(k1, k2) ==
    IF Len(k1.bytes) # Len(k2.bytes) THEN FALSE ELSE k1.bytes = k2.bytes

\* a release call: f is free_key, free_val (the callbacks) or free_entry,
\* free_entries, free_dict (free() on an entry record, the bucket array, the
\* table record)
Call(f, key, val) == [f |-> f, key |-> key, val |-> val]

\* dictNew: the dictionary returned and the release calls made.  ma is what
\* the allocator does: "no_table" is malloc of the table record failing,
\* "no_entries" is calloc of the bucket array failing (the table record is
\* then freed), "went" is both succeeding.
dictNew(size, free_key, free_val, ma) ==
    IF ma = "no_table"
    THEN [d |-> [size |-> 0, free_key |-> FALSE, free_val |-> FALSE,
                 entries |-> <<>>, status |-> "null"],
          calls |-> <<>>]
    ELSE IF ma = "no_entries"
    THEN [d |-> [size |-> 0, free_key |-> FALSE, free_val |-> FALSE,
                 entries |-> <<>>, status |-> "null"],
          calls |-> <<Call("free_dict", NullKey, NULL)>>]
    ELSE [d |-> [size |-> size, free_key |-> free_key, free_val |-> free_val,
                 entries |-> [i \in 1..size |-> <<>>], status |-> "live"],
          calls |-> <<>>]

\* position in the chain of the first entry with a key equal to key, or 0
RECURSIVE ChainFind(_, _, _)
ChainFind(chain, key, i) ==
    IF i > Len(chain) THEN 0
    ELSE IF dictIsKeyEqual(chain[i].key, key) THEN i
    ELSE ChainFind(chain, key, i + 1)

\* an overwrite that also stores the new key pointer
OverwriteEntryAndKey(e, key, val) == [e EXCEPT !.key = key, !.val = val]

\* entry->val = val on the entry whose key equals the given key
OverwriteEntry(e, key, val) == [e EXCEPT !.val = val]

\* dictSet: the dictionary after the call and the release calls it made
\* dictSet linking a new entry behind the last one of its chain
dictSetAppend(d, key, val, malloc_ok) ==
    IF d.status = "null" \/ key = NullKey
    THEN [d |-> d, calls |-> <<>>]
    ELSE IF d.size = 0
    THEN [d |-> [d EXCEPT !.status = "ub_div_zero"], calls |-> <<>>]
    ELSE LET idx   == dictHashBytes(key.bytes, d.size) + 1
             chain == d.entries[idx]
             j     == ChainFind(chain, key, 1)
         IN  IF j > 0
             THEN [d |-> [d EXCEPT !.entries[idx][j] = OverwriteEntry(chain[j], key, val)],
                   calls |-> IF d.free_val
                             THEN <<Call("free_val", NullKey, chain[j].val)>>
                             ELSE <<>>]
             ELSE IF ~malloc_ok
             THEN [d |-> d, calls |-> <<>>]
             ELSE [d |-> [d EXCEPT !.entries[idx] =
                              chain \o <<[key |-> key, val |-> val]>>],
                   calls |-> <<>>]

dictSet(d, key, val, malloc_ok) ==
    IF d.status = "null" \/ key = NullKey
    THEN [d |-> d, calls |-> <<>>]
    ELSE IF d.size = 0
    THEN [d |-> [d EXCEPT !.status = "ub_div_zero"], calls |-> <<>>]
    ELSE LET idx   == dictHashBytes(key.bytes, d.size) + 1
             chain == d.entries[idx]
             j     == ChainFind(chain, key, 1)
         IN  IF j > 0
             THEN [d |-> [d EXCEPT !.entries[idx][j] = OverwriteEntry(chain[j], key, val)],
                   calls |-> IF d.free_val
                             THEN <<Call("free_val", NullKey, chain[j].val)>>
                             ELSE <<>>]
             ELSE IF ~malloc_ok
             THEN [d |-> d, calls |-> <<>>]
             ELSE [d |-> [d EXCEPT !.entries[idx] =
                              <<[key |-> key, val |-> val]>> \o chain],
                   calls |-> <<>>]

\* dictGet looking at the head of the chain only
dictGetHeadOnly(d, key) ==
    IF d.status = "null" \/ key = NullKey \/ d.size = 0 THEN NULL
    ELSE LET chain == d.entries[dictHashBytes(key.bytes, d.size) + 1]
         IN  IF Len(chain) > 0 /\ dictIsKeyEqual(chain[1].key, key)
             THEN chain[1].val ELSE NULL

dictGet(d, key) ==
    IF d.status = "null" \/ key = NullKey \/ d.size = 0 THEN NULL
    ELSE LET chain == d.entries[dictHashBytes(key.bytes, d.size) + 1]
             j     == ChainFind(chain, key, 1)
         IN  IF j > 0 THEN chain[j].val ELSE NULL

\* the release calls dictFree makes on one chain, head first
RECURSIVE ChainFree(_, _, _)
ChainFree(d, chain, i) ==
    IF i > Len(chain) THEN <<>>
    ELSE (IF d.free_key THEN <<Call("free_key", chain[i].key, NULL)>> ELSE <<>>)
         \o (IF d.free_val THEN <<Call("free_val", NullKey, chain[i].val)>> ELSE <<>>)
         \o <<Call("free_entry", chain[i].key, NULL)>>
         \o ChainFree(d, chain, i + 1)

RECURSIVE BucketsFree(_, _)
BucketsFree(d, i) ==
    IF i > d.size THEN <<>>
    ELSE ChainFree(d, d.entries[i], 1) \o BucketsFree(d, i + 1)

\* dictFree that leaves the values alone
dictFreeKeysOnly(d) ==
    IF d.status = "null" THEN [d |-> d, calls |-> <<>>]
    ELSE [d |-> [d EXCEPT !.entries = <<>>, !.status = "freed"],
          calls |-> BucketsFree([d EXCEPT !.free_val = FALSE], 1)
                    \o <<Call("free_entries", NullKey, NULL),
                         Call("free_dict", NullKey, NULL)>>]

dictFree(d) ==
    IF d.status = "null" THEN [d |-> d, calls |-> <<>>]
    ELSE [d |-> [d EXCEPT !.entries = <<>>, !.status = "freed"],
          calls |-> BucketsFree(d, 1)
                    \o <<Call("free_entries", NullKey, NULL),
                         Call("free_dict", NullKey, NULL)>>]

(***************************************************************************)
(* Dictionary actions                                                      *)
(***************************************************************************)
NoFrees == {}

\* history of release calls: a set of <<call, n>>, n the number of times
\* the call was made (calls never made are absent)
Times(fr, c) == IF \E p \in fr : p[1] = c THEN (CHOOSE p \in fr : p[1] = c)[2] ELSE 0

AddCall(fr, c) == {p \in fr : p[1] # c} \cup {<<c, Times(fr, c) + 1>>}

RECURSIVE AddCalls(_, _, _)
AddCalls(fr, calls, i) ==
    IF i > Len(calls) THEN fr ELSE AddCalls(AddCall(fr, calls[i]), calls, i + 1)

DictUsable == dict.status \in {"live", "null"}

DictSet(key, val, malloc_ok) ==
    /\ DictUsable
    /\ nsets < MaxSets
    /\ UNCHANGED <<vecVars, calcVars>>
    /\ LET r == dictSet(dict, key, val, malloc_ok)
           given == dict.status = "live" /\ key # NullKey /\ dict.size > 0
       IN  /\ dict' = r.d
           /\ frees' = AddCalls(frees, r.calls, 1)
           /\ latest' = IF given THEN [latest EXCEPT ![key.bytes] = val] ELSE latest
           /\ handed' = IF given THEN handed \cup {key} ELSE handed
           /\ nomem' = (nomem \/ (given /\ ~malloc_ok))
    /\ dlast' = [op |-> "set", key |-> key, val |-> val, ret |-> NULL]
    /\ nsets' = nsets + 1

DictGet(key) ==
    /\ DictUsable
    /\ UNCHANGED <<vecVars, calcVars>>
    /\ dict' = IF dict.status = "live" /\ key # NullKey /\ dict.size = 0
               THEN [dict EXCEPT !.status = "ub_div_zero"] ELSE dict
    /\ dlast' = [op |-> "get", key |-> key, val |-> NULL, ret |-> dictGet(dict, key)]
    /\ UNCHANGED <<latest, handed, frees, nsets, nomem>>

DictFree ==
    /\ DictUsable
    /\ UNCHANGED <<vecVars, calcVars>>
    /\ LET r == dictFree(dict)
       IN  /\ dict' = r.d
           /\ frees' = AddCalls(frees, r.calls, 1)
    /\ dlast' = [op |-> "free", key |-> NullKey, val |-> NULL, ret |-> NULL]
    /\ UNCHANGED <<latest, handed, nsets, nomem>>

NoDict == [size |-> 0, free_key |-> FALSE, free_val |-> FALSE,
           entries |-> <<>>, status |-> "none"]
NoDictCall == [op |-> "new", key |-> NullKey, val |-> NULL, ret |-> NULL]

DictIdle ==
    /\ dict = NoDict
    /\ dlast = NoDictCall
    /\ latest = [b \in KeyBytes |-> Unset]
    /\ handed = {}
    /\ frees = NoFrees
    /\ nsets = 0
    /\ nomem = FALSE

VecIdle ==
    /\ variant = "struct"
    /\ requested = 0
    /\ vec = NoVector(0, "none")
    /\ vlast = NoCall
    /\ pushed = <<>>
    /\ pushOnly = FALSE

\* the pure-function components, not in use
NoB64  == [pc |-> "none"]
NoMd5  == [pc |-> "none"]
NoArgs == [pc |-> "none"]
NoStr  == [pc |-> "none"]
NoAlloc == [pc |-> "none"]

B64Idle  == b64 = NoB64
Md5Idle  == md5 = NoMd5
ArgsIdle == args = NoArgs
StrIdle  == str = NoStr
AllocIdle == alloc = NoAlloc

(***************************************************************************)
(* Specification of the dictionary                                         *)
(***************************************************************************)
InitDict ==
    /\ \E size \in DictSizes, fk \in BOOLEAN, fv \in BOOLEAN :
         \E ma \in {"went", "no_table", "no_entries"} :
            LET r == dictNew(size, fk, fv, ma)
            IN  /\ dict = r.d
                /\ frees = AddCalls(NoFrees, r.calls, 1)
    /\ dlast = NoDictCall
    /\ latest = [b \in KeyBytes |-> Unset]
    /\ handed = {}
    /\ nsets = 0
    /\ nomem = FALSE
    /\ VecIdle
    /\ B64Idle /\ Md5Idle /\ ArgsIdle /\ StrIdle /\ AllocIdle

NextDict ==
    \/ \E key \in KeyRefs \cup {NullKey}, val \in DictVals, ok \in BOOLEAN :
          DictSet(key, val, ok)
    \/ \E key \in KeyRefs \cup {NullKey} : DictGet(key)
    \/ DictFree

SpecDict == InitDict /\ [][NextDict]_vars

(***************************************************************************)
(* Claims about the dictionary                                             *)
(***************************************************************************)
\* the entries of the table, by bucket and position in the chain
EntryPos(d) ==
    {<<i, j>> \in (1..Len(d.entries)) \X (1..MaxSets) : j <= Len(d.entries[i])}

EntryAt(d, p) == d.entries[p[1]][p[2]]

\* the positions of the entries whose key has these bytes (and so this length)
PosOfBytes(d, bytes) == {p \in EntryPos(d) : EntryAt(d, p).key.bytes = bytes}

NoDupKeys(d) == \A b \in KeyBytes : Cardinality(PosOfBytes(d, b)) <= 1

\* the step is a dictSet with a key that an entry of the table already has
Overwrites ==
    /\ dlast'.op = "set" /\ dict.status = "live" /\ dict.size > 0
    /\ dlast'.key # NullKey
    /\ PosOfBytes(dict, dlast'.key.bytes) # {}

AllCalls ==
    {Call("free_key", k, NULL) : k \in KeyRefs}
    \cup {Call("free_entry", k, NULL) : k \in KeyRefs}
    \cup {Call("free_val", NullKey, v) : v \in DictVals}
    \cup {Call("free_entries", NullKey, NULL), Call("free_dict", NullKey, NULL)}

\* C6: no two entries of the table have equal keys (same length, same
\* bytes), and a dictSet with a key the table already has replaces that
\* entry's value and leaves the number of entries unchanged.
C6_UniqueKeys ==
    [][/\ NoDupKeys(dict')
       /\ Overwrites =>
            /\ Cardinality(EntryPos(dict')) = Cardinality(EntryPos(dict))
            /\ \A p \in PosOfBytes(dict', dlast'.key.bytes) :
                  EntryAt(dict', p).val = dlast'.val]_vars

\* the table holds one entry for the bytes of buffers 1 and 2, after both
\* buffers were given to dictSet
C6_Witness ==
    /\ dict.status = "live" /\ dlast.op = "set" /\ dlast.val # NULL
    /\ {k \in handed : k.bytes = dlast.key.bytes} # {dlast.key}
    /\ \E p \in PosOfBytes(dict, dlast.key.bytes) :
          EntryAt(dict, p).val = dlast.val /\ EntryAt(dict, p).key # dlast.key

KeyOfBytes(b) == CHOOSE k \in KeyRefs : k.bytes = b

\* C7 as stated: dictGet(k) returns the value of the most recent dictSet for
\* k, and the not-found result (NULL) exactly when k was never set.
C7_GetLatestExact ==
    (dict.status = "live" /\ dict.size > 0 /\ ~nomem) =>
        \A b \in KeyBytes :
            /\ latest[b] # Unset => dictGet(dict, KeyOfBytes(b)) = latest[b]
            /\ (dictGet(dict, KeyOfBytes(b)) = NULL) <=> (latest[b] = Unset)

\* C7 (amended): dictGet(k) returns the value of the most recent dictSet for
\* k, and NULL when k was never set; NULL is also what it returns for a key
\* whose most recent value is NULL.
C7_GetLatest ==
    (dict.status = "live" /\ dict.size > 0 /\ ~nomem) =>
        \A k \in KeyRefs :
            dictGet(dict, k) = IF latest[k.bytes] = Unset THEN NULL
                               ELSE latest[k.bytes]

\* a dictGet that found its key behind another entry of the same chain, and
\* a key that was never set
C7_Witness ==
    /\ dict.status = "live" /\ ~nomem /\ dlast.op = "get" /\ dlast.key # NullKey
    /\ dlast.ret # NULL /\ dlast.ret = latest[dlast.key.bytes]
    /\ \E p \in PosOfBytes(dict, dlast.key.bytes) : p[2] = 2
    /\ \E b \in KeyBytes : latest[b] = Unset

\* how often dictFree has to make the call c on the table d
ExpectedFree(d, c) ==
    CASE c.f = "free_key"   -> Cardinality({p \in EntryPos(d) : EntryAt(d, p).key = c.key})
      [] c.f = "free_entry" -> Cardinality({p \in EntryPos(d) : EntryAt(d, p).key = c.key})
      [] c.f = "free_val"   -> Cardinality({p \in EntryPos(d) : EntryAt(d, p).val = c.val})
      [] OTHER              -> 1

\* C8: dictFree on a table with both callbacks calls free_key once on the
\* key and free_val once on the current value of every entry in the table,
\* on nothing else, and frees every entry record, the bucket array and the
\* table record once.
C8_FreeReleasesOnce ==
    [][(dlast'.op = "free" /\ dict.status = "live" /\ dict.free_key /\ dict.free_val) =>
          /\ \A c \in AllCalls : Times(frees', c) = Times(frees, c) + ExpectedFree(dict, c)
          /\ {p[1] : p \in frees'} \subseteq AllCalls]_vars

\* a freed table that held two entries in one chain
C8_Witness ==
    /\ dict.status = "freed" /\ dict.free_key /\ dict.free_val /\ dict.size = 2
    /\ Cardinality({p \in frees : p[1].f = "free_entry"}) = 2
    /\ Cardinality({p \in frees : p[1].f = "free_key"}) = 2
    /\ \E v \in DictVals : Times(frees, Call("free_val", NullKey, v)) = 2

\* C9: a dictSet that overwrites calls free_val once, on the value it
\* replaces, calls free_key on nothing, and the entry keeps its key pointer.
C9_OverwriteReleasesOldValue ==
    [][Overwrites =>
          LET p   == CHOOSE q \in PosOfBytes(dict, dlast'.key.bytes) : TRUE
              old == EntryAt(dict, p)
          IN  /\ frees' = IF dict.free_val
                          THEN AddCall(frees, Call("free_val", NullKey, old.val))
                          ELSE frees
              /\ EntryAt(dict', p).key = old.key
              /\ EntryAt(dict', p).val = dlast'.val]_vars

\* an overwrite through another buffer with the same bytes, on a table with
\* both callbacks
C9_Witness ==
    /\ dict.status = "live" /\ dict.free_val /\ dict.free_key
    /\ dlast.op = "set" /\ dlast.key # NullKey
    /\ \E p \in PosOfBytes(dict, dlast.key.bytes) :
          EntryAt(dict, p).key # dlast.key /\ EntryAt(dict, p).val = dlast.val
    /\ \E v \in DictVals \ {NULL} : Times(frees, Call("free_val", NullKey, v)) = 1

\* C10: on a table with free_key, every key pointer given to dictSet has
\* been passed to free_key exactly once when dictFree has returned (stated
\* here for the runs in which every entry allocation succeeded).
C10_HandedKeysReleased ==
    (dict.status = "freed" /\ dict.free_key /\ ~nomem) =>
        \A k \in handed : Times(frees, Call("free_key", k, NULL)) = 1

(***************************************************************************)
(* Specification of the vector                                             *)
(***************************************************************************)
InitVec ==
    /\ variant \in {"struct", "fat"}
    /\ \E cell_size \in VecCellSizes, c \in InitCaps, clr \in BOOLEAN, ok \in BOOLEAN :
          requested = c /\ vec = vecNew(cell_size, c, clr, ok)
    /\ vlast = NoCall
    /\ pushed = <<>>
    /\ pushOnly = (vec.status = "live")    \* vecNew returned a vector
    /\ DictIdle
    /\ B64Idle /\ Md5Idle /\ ArgsIdle /\ StrIdle /\ AllocIdle

\* what realloc may do in the call about to be made
PushOutcomes ==
    IF ~Live \/ ~Grows THEN {"inplace"}
    ELSE IF variant = "fat" THEN {"fail", "inplace", "moved"}  \* never 0 bytes: VecMeta
    ELSE ReallocOutcomes(Cells(vec.cell_size, U32Double(vec.capacity)))

ReserveOutcomes(n) ==
    IF ~Live \/ variant = "fat" THEN {"fail", "inplace", "moved"}
    ELSE ReallocOutcomes(Cells(vec.cell_size, n))

NextVec ==
    \/ \E val \in Vals : \E ra \in PushOutcomes : Push(val, ra)
    \/ Pop
    \/ \E idx \in Indexes, val \in Vals : Set(idx, val)
    \/ \E idx \in Indexes : At(idx)
    \/ \E n \in 0..MaxReserve, clr \in BOOLEAN :
         \E ra \in ReserveOutcomes(n) : Reserve(n, clr, ra)
    \/ \E purge \in BOOLEAN : Free(IF variant = "struct" THEN purge ELSE FALSE)
    \/ FreeNull

SpecVec == InitVec /\ [][NextVec]_vars

(***************************************************************************)
(* Claims about the vector                                                 *)
(***************************************************************************)
ReallocWent(ra) == ra \in {"inplace", "moved"}

\* C1: after pushing v0..vn-1 in order onto a fresh vector, every
\* reallocation succeeding, the length is n and vecAt(i) refers to a cell
\* equal to vi for every i < n.
C1_PushAtRoundTrip ==
    pushOnly =>
        /\ vec.length = Len(pushed)
        /\ \A i \in 0..(Len(pushed) - 1) :
              /\ vecAt(vec, i).ok
              /\ CellAt(vec, vecAt(vec, i)) = pushed[i + 1]

\* C2: in every state reached from vecNew by vecPush, vecPop, vecSet and
\* vecReserve, length <= capacity (struct-handle vector).
C2_LengthLeCapacity ==
    variant = "struct" => vec.length <= vec.capacity

\* C3: no operation on the vector lowers its capacity (struct-handle
\* vector).
C3_CapacityNeverShrinks ==
    [][variant = "struct" => vec'.capacity >= vec.capacity]_vars

\* C4: a vecPush whose reallocation fails leaves capacity, length, the
\* stored cells and the caller's handle as they were.
C4_FailedPushIsNoOp ==
    [][(vlast'.op = "push" /\ vlast'.ra = "fail") => vec' = vec]_vars

\* C5: vecPop right after a vecPush(v) that went through returns a pointer
\* to a cell equal to v and puts length back to its value before the push.
C5_PopAfterPush ==
    (vlast.op = "pop" /\ vlast.prev.op = "push" /\ ReallocWent(vlast.prev.ra)) =>
        /\ vlast.ret.ok
        /\ vlast.got = vlast.prev.val
        /\ vec.length = vlast.prev.len0
        /\ vec.status = "live"

\* the cell behind slot i of the storage, Junk outside the allocation
Slot(v, i) == CellAt(v, Ref(i))

SamePrefix(v, w) == \A i \in 0..(v.length - 1) : Slot(w, i) = Slot(v, i)

\* C11: vecReserve(vec, n, clear) with n >= capacity leaves length and the
\* cells of slots 0..length-1 unchanged and, when the reallocation succeeds,
\* makes capacity >= n; when the reallocation fails the vector (its fields,
\* its storage and the caller's handle) is unchanged.
C11_ReserveFrame ==
    [][(vlast'.op = "reserve" /\ ~U32Lt(vlast'.idx, vec.capacity)) =>
          IF ReallocWent(vlast'.ra)
          THEN /\ vec'.status = "live"
               /\ vec'.handle = vec.handle
               /\ vec'.length = vec.length
               /\ SamePrefix(vec, vec')
               /\ ~U32Lt(vec'.capacity, vlast'.idx)
          ELSE vec' = vec]_vars

\* C12: vecReserve with do_clear = true and new_capacity > capacity, the
\* reallocation succeeding, zero-fills exactly the slots [old capacity,
\* new_capacity) of the new buffer and writes nowhere else: not outside the
\* new buffer and not through the pointer the storage had before realloc.
C12_ReserveClears ==
    [][(/\ vlast'.op = "reserve" /\ vlast'.clr /\ ReallocWent(vlast'.ra)
        /\ vec.handle = "data"
        /\ U32Lt(vec.capacity, vlast'.idx)) =>
          /\ vec'.status = "live"
          /\ \A i \in 0..(vlast'.idx - 1) :
                Slot(vec', i) = IF i >= vec.capacity THEN Zero ELSE Slot(vec, i)]_vars

\* C13: vecPop on a vector with length = 0 fails and leaves the vector as it
\* was, and length never wraps below zero.
C13_PopEmptyFails ==
    [][/\ (vlast'.op = "pop" /\ vec.length = 0 /\ vec.handle = "data") =>
             vec' = [vec EXCEPT !.status = "abort"]
       /\ vec'.length >= 0]_vars

\* C14: vecSet(vec, i, v) with i < length overwrites slot i with v and
\* leaves every other slot, length and capacity unchanged (the storage is
\* not reallocated); with i >= length it fails and writes nothing.
C14_SetFrame ==
    [][(vlast'.op = "set" /\ vec.handle = "data") =>
          IF U32Lt(vlast'.idx, vec.length)
          THEN /\ Slot(vec', vlast'.idx) = vlast'.val
               /\ vec' = [vec EXCEPT !.mem = vec'.mem]
               /\ Len(vec'.mem) = Len(vec.mem)
               /\ \A i \in 0..(Len(vec.mem) - 1) :
                     i # vlast'.idx => Slot(vec', i) = Slot(vec, i)
          ELSE vec' = [vec EXCEPT !.status = "abort"]]_vars

\* C15: vecFree on a null pointer or on a vector that was already freed
\* releases nothing: no storage is released twice.
C15_FreeIdempotent ==
    [][/\ vlast'.op = "free_null" => vec' = vec
       /\ (vlast'.op = "free" /\ vec.status = "freed") => vec' = vec]_vars

(***************************************************************************)
(* Base64 (b64Encode / b64Decode of deltautils.h)                          *)
(*                                                                         *)
(* Bytes and characters are their codes 0..255; a buffer is the sequence   *)
(* of what the function wrote to it, the returned size_t is its length.    *)
(***************************************************************************)
MaxB64Len == 3            \* inputs of every length 0..MaxB64Len are explored

B64Bytes == {0, 16, 77, 255}
Hello    == <<72, 101, 108, 108, 111>>

RECURSIVE SeqsUpTo(_, _)
SeqsUpTo(S, n) ==
    IF n = 0 THEN {<<>>}
    ELSE LET shorter == SeqsUpTo(S, n - 1)
         IN  shorter \cup {Append(q, x) : q \in {r \in shorter : Len(r) = n - 1}, x \in S}

B64Inputs == SeqsUpTo(B64Bytes, MaxB64Len) \cup {Hello}

Pad == 61                 \* '='

\* "ABCDEFGHIJKLMNOPQRSTUVWXYZabcdefghijklmnopqrstuvwxyz0123456789+/"
b64_et ==
    [k \in 1..64 |-> IF k <= 26 THEN 64 + k
                     ELSE IF k <= 52 THEN 70 + k
                     ELSE IF k <= 62 THEN k - 5
                     ELSE IF k = 63 THEN 43 ELSE 47]

\* the 256-entry decode table: the index of c in the alphabet, 0 for every
\* other character
b64_dt(c) ==
    IF \E k \in 1..64 : b64_et[k] = c
    THEN (CHOOSE k \in 1..64 : b64_et[k] = c) - 1
    ELSE 0

\* (g >> sh) & mask, for a mask of the form 2^k - 1; pow = 2^sh
Field(g, pow, mask) == (g \div pow) % (mask + 1)

\* size_t b64Encode(uint8_t *in, size_t len, char *out): whole groups in the
\* loop, then the rem == 1 and rem == 2 tails; every table index is masked
\* with 0xF
b64Encode(in) ==
    LET len == Len(in)
        Grp(i) == in[i] * 65536
                  + (IF i + 1 <= len THEN in[i + 1] * 256 ELSE 0)
                  + (IF i + 2 <= len THEN in[i + 2] ELSE 0)
        Chars(i) == LET g == Grp(i)
                        n == len - i + 1      \* bytes left from i on
                    IN  << b64_et[Field(g, 262144, 15) + 1],
                           b64_et[Field(g, 4096, 15) + 1],
                           IF n >= 2 THEN b64_et[Field(g, 64, 15) + 1] ELSE Pad,
                           IF n >= 3 THEN b64_et[Field(g, 1, 15) + 1] ELSE Pad >>
        Out[i \in 1..(len + 3)] == IF i > len THEN <<>> ELSE Chars(i) \o Out[i + 3]
    IN  IF len = 0 THEN [status |-> "abort", out |-> <<>>]
        ELSE [status |-> "ok", out |-> Out[1]]

\* a read of in[i]; past the end of the buffer the value is not defined
CharAt(in, i) == IF i <= Len(in) THEN in[i] ELSE Pad

\* size_t b64Decode(char *in, size_t len, uint8_t *out): four characters at
\* a time, one to three bytes out of each
b64Decode(in) ==
    LET len == Len(in)
        Val(c) == IF c = Pad THEN 0 ELSE b64_dt(c)
        Bytes(i) == LET g == Val(CharAt(in, i)) * 262144 + Val(CharAt(in, i + 1)) * 4096
                             + Val(CharAt(in, i + 2)) * 64 + Val(CharAt(in, i + 3))
                    IN  << Field(g, 65536, 255) >>
                        \o (IF CharAt(in, i + 2) # Pad THEN << Field(g, 256, 255) >> ELSE <<>>)
                        \o (IF CharAt(in, i + 3) # Pad THEN << Field(g, 1, 255) >> ELSE <<>>)
        Out[i \in 1..(len + 4)] == IF i > len THEN <<>> ELSE Bytes(i) \o Out[i + 4]
    IN  IF len = 0 THEN [status |-> "abort", out |-> <<>>]
        ELSE IF len % 4 # 0 THEN [status |-> "ub_oob_read", out |-> Out[1]]
        ELSE [status |-> "ok", out |-> Out[1]]

\* the caller encodes b64.in
Encode ==
    /\ b64.pc = "start"
    /\ LET e == b64Encode(b64.in)
       IN  b64' = [b64 EXCEPT !.pc = IF e.status = "ok" THEN "encoded" ELSE e.status,
                              !.enc = e.out]
    /\ UNCHANGED <<vecVars, dictVars, md5, args, str, alloc>>

\* the caller decodes what the encoder wrote
Decode ==
    /\ b64.pc = "encoded"
    /\ LET d == b64Decode(b64.enc)
       IN  b64' = [b64 EXCEPT !.pc = IF d.status = "ok" THEN "decoded" ELSE d.status,
                              !.dec = d.out]
    /\ UNCHANGED <<vecVars, dictVars, md5, args, str, alloc>>

InitB64 ==
    /\ \E x \in B64Inputs : b64 = [pc |-> "start", in |-> x, enc |-> <<>>, dec |-> <<>>]
    /\ VecIdle /\ DictIdle /\ Md5Idle /\ ArgsIdle /\ StrIdle /\ AllocIdle

NextB64 ==
    \/ Encode
    \/ Decode

SpecB64 == InitB64 /\ [][NextB64]_vars

\* C16: b64Decode(b64Encode(x)) = x for every byte sequence x, the empty one
\* included: the encoder accepts x, and what the decoder makes of its output
\* is x.
C16_RoundTrip ==
    /\ b64.pc # "abort"
    /\ b64.pc = "decoded" => b64.dec = b64.in

\* the standard encoding: 3 bytes are 4 fields of 6 bits, most significant
\* first; a last group of 1 or 2 bytes gives 2 or 3 characters and '='
RECURSIVE StdB64(_)
StdB64(x) ==
    IF Len(x) = 0 THEN <<>>
    ELSE LET n  == IF Len(x) >= 3 THEN 3 ELSE Len(x)
             g  == x[1] * 65536 + (IF n >= 2 THEN x[2] * 256 ELSE 0)
                                + (IF n >= 3 THEN x[3] ELSE 0)
             ch(k) == b64_et[((g \div (64 ^ (4 - k))) % 64) + 1]
         IN  << ch(1), ch(2), IF n >= 2 THEN ch(3) ELSE Pad,
                              IF n >= 3 THEN ch(4) ELSE Pad >>
             \o StdB64(SubSeq(x, n + 1, Len(x)))

\* "SGVsbG8="
HelloB64 == <<83, 71, 86, 115, 98, 71, 56, 61>>

\* C17: what b64Encode writes is the standard Base64 encoding of its input,
\* 4 * ceil(len / 3) characters long; "Hello" gives "SGVsbG8=".
C17_StandardEncoding ==
    b64.pc \in {"encoded", "decoded"} =>
        /\ b64.enc = StdB64(b64.in)
        /\ Len(b64.enc) = 4 * ((Len(b64.in) + 2) \div 3)
        /\ b64.in = Hello => b64.enc = HelloB64

(***************************************************************************)
(* MD5 (utils_src/hash.c)                                                  *)
(*                                                                         *)
(* A uint32_t is a record of its two 16-bit halves, so that every sum and  *)
(* shift is computed modulo 2^32 as in the code.  A byte buffer is the     *)
(* sequence of its bytes.                                                  *)
(***************************************************************************)
MaxMd5Len == 4            \* messages of every length 0..MaxMd5Len are explored
MaxMd5Run == 70           \* and one message of each length 0..MaxMd5Run

Md5Bytes == {97, 98, 99}
Abc == <<97, 98, 99>>
\* "The quick brown fox jumps over the lazy dog"
Fox == <<84, 104, 101, 32, 113, 117, 105, 99, 107, 32, 98, 114, 111, 119, 110, 32,
         102, 111, 120, 32, 106, 117, 109, 112, 115, 32, 111, 118, 101, 114, 32,
         116, 104, 101, 32, 108, 97, 122, 121, 32, 100, 111, 103>>

Md5Runs == {[i \in 1..n |-> 97] : n \in 0..MaxMd5Run}

Md5Inputs == SeqsUpTo(Md5Bytes, MaxMd5Len) \cup {Abc, Fox} \cup Md5Runs

AI == W(\H6745, \H2301)
BI == W(\Hefcd, \Hab89)
CI == W(\H98ba, \Hdcfe)
DI == W(\H1032, \H5476)

T == <<
    W(\Hd76a, \Ha478), W(\He8c7, \Hb756), W(\H2420, \H70db), W(\Hc1bd, \Hceee),
    W(\Hf57c, \H0faf), W(\H4787, \Hc62a), W(\Ha830, \H4613), W(\Hfd46, \H9501),
    W(\H6980, \H98d8), W(\H8b44, \Hf7af), W(\Hffff, \H5bb1), W(\H895c, \Hd7be),
    W(\H6b90, \H1122), W(\Hfd98, \H7193), W(\Ha679, \H438e), W(\H49b4, \H0821),
    W(\Hf61e, \H2562), W(\Hc040, \Hb340), W(\H265e, \H5a51), W(\He9b6, \Hc7aa),
    W(\Hd62f, \H105d), W(\H0244, \H1453), W(\Hd8a1, \He681), W(\He7d3, \Hfbc8),
    W(\H21e1, \Hcde6), W(\Hc337, \H07d6), W(\Hf4d5, \H0d87), W(\H455a, \H14ed),
    W(\Ha9e3, \He905), W(\Hfcef, \Ha3f8), W(\H676f, \H02d9), W(\H8d2a, \H4c8a),
    W(\Hfffa, \H3942), W(\H8771, \Hf681), W(\H6d9d, \H6122), W(\Hfde5, \H380c),
    W(\Ha4be, \Hea44), W(\H4bde, \Hcfa9), W(\Hf6bb, \H4b60), W(\Hbebf, \Hbc70),
    W(\H289b, \H7ec6), W(\Heaa1, \H27fa), W(\Hd4ef, \H3085), W(\H0488, \H1d05),
    W(\Hd9d4, \Hd039), W(\He6db, \H99e5), W(\H1fa2, \H7cf8), W(\Hc4ac, \H5665),
    W(\Hf429, \H2244), W(\H432a, \Hff97), W(\Hab94, \H23a7), W(\Hfc93, \Ha039),
    W(\H655b, \H59c3), W(\H8f0c, \Hcc92), W(\Hffef, \Hf47d), W(\H8584, \H5dd1),
    W(\H6fa8, \H7e4f), W(\Hfe2c, \He6e0), W(\Ha301, \H4314), W(\H4e08, \H11a1),
    W(\Hf753, \H7e82), W(\Hbd3a, \Hf235), W(\H2ad7, \Hd2bb), W(\Heb86, \Hd391) >>

RECURSIVE BitAnd(_, _)
BitAnd(a, b) ==
    IF a = 0 \/ b = 0 THEN 0
    ELSE 2 * BitAnd(a \div 2, b \div 2) + ((a % 2) * (b % 2))

WAnd(x, y) == W(BitAnd(x.hi, y.hi), BitAnd(x.lo, y.lo))
WOr(x, y)  == W(x.hi + y.hi - BitAnd(x.hi, y.hi), x.lo + y.lo - BitAnd(x.lo, y.lo))
WXor(x, y) == W(Xor(x.hi, y.hi), Xor(x.lo, y.lo))
WNot(x)    == W(65535 - x.hi, 65535 - x.lo)

\* the rotation to the right: (x >> (b & 31)) | (x << (32 - (b & 31)))
RR32(x, b) ==
    LET n  == (32 - (b % 32)) % 32
        y  == IF n >= 16 THEN W(x.lo, x.hi) ELSE x
        s  == n % 16
        up == 2 ^ s
        dn == 2 ^ (16 - s)
    IN  W(((y.hi * up) % 65536) + (y.lo \div dn),
          ((y.lo * up) % 65536) + (y.hi \div dn))

\* (x << (b & 31)) | (x >> (32 - (b & 31)))
LR32(x, b) ==
    LET n  == b % 32
        y  == IF n >= 16 THEN W(x.lo, x.hi) ELSE x
        s  == n % 16
        up == 2 ^ s
        dn == 2 ^ (16 - s)
    IN  W(((y.hi * up) % 65536) + (y.lo \div dn),
          ((y.lo * up) % 65536) + (y.hi \div dn))

F(x, y, z) == WOr(WAnd(x, y), WAnd(WNot(x), z))
G(x, y, z) == WOr(WAnd(x, z), WAnd(y, WNot(z)))
H(x, y, z) == WXor(WXor(x, y), z)
I(x, y, z) == WXor(y, WOr(x, WNot(z)))

\* a += f(b, c, d) + x + ac;  a = LR32(a, s);  a += b;
FF(a, b, c, d, x, s, ac) == Add32(LR32(Add32(a, Add32(Add32(F(b, c, d), x), ac)), s), b)
GG(a, b, c, d, x, s, ac) == Add32(LR32(Add32(a, Add32(Add32(G(b, c, d), x), ac)), s), b)
HH(a, b, c, d, x, s, ac) == Add32(LR32(Add32(a, Add32(Add32(H(b, c, d), x), ac)), s), b)
II(a, b, c, d, x, s, ac) == Add32(LR32(Add32(a, Add32(Add32(I(b, c, d), x), ac)), s), b)

Zeros(n) == [i \in 1..n |-> 0]

\* top (history): the highest offset in buff a memcpy has written up to
md5Init == [a |-> AI, b |-> BI, c |-> CI, d |-> DI,
            buff |-> Zeros(64), size |-> 0, blen |-> 0, top |-> 0]

\* FF(a, b, c, d, M[k], s, T[t]) and its like: the macro, the four
\* registers in the order of the call, the word index, the shift, the
\* index of the constant
MacroCall(op, r1, r2, r3, r4, k, s, t) ==
    [op |-> op, r1 |-> r1, r2 |-> r2, r3 |-> r3, r4 |-> r4, k |-> k, s |-> s, t |-> t]

\* the 64 calls of __md5HandleBlock, in the order of the source
MacroCalls == <<
    MacroCall("FF", "a", "b", "c", "d",  0,  7,  0),
    MacroCall("FF", "d", "a", "b", "c",  1, 12,  1),
    MacroCall("FF", "c", "d", "a", "b",  2, 17,  2),
    MacroCall("FF", "b", "c", "d", "a",  3, 22,  3),
    MacroCall("FF", "a", "b", "c", "d",  4,  7,  4),
    MacroCall("FF", "d", "a", "b", "c",  5, 12,  5),
    MacroCall("FF", "c", "d", "a", "b",  6, 17,  6),
    MacroCall("FF", "b", "c", "d", "a",  7, 22,  7),
    MacroCall("FF", "a", "b", "c", "d",  8,  7,  8),
    MacroCall("FF", "d", "a", "b", "c",  9, 12,  9),
    MacroCall("FF", "c", "d", "a", "b", 10, 17, 10),
    MacroCall("FF", "b", "c", "d", "a", 11, 22, 11),
    MacroCall("FF", "a", "b", "c", "d", 12,  7, 12),
    MacroCall("FF", "d", "a", "b", "c", 13, 12, 13),
    MacroCall("FF", "c", "d", "a", "b", 14, 17, 14),
    MacroCall("FF", "b", "c", "d", "a", 15, 22, 15),

    MacroCall("GG", "a", "b", "c", "d",  1,  5, 16),
    MacroCall("GG", "d", "a", "b", "c",  6,  9, 17),
    MacroCall("GG", "c", "d", "a", "b", 11, 14, 18),
    MacroCall("GG", "b", "c", "d", "a",  0, 20, 19),
    MacroCall("GG", "a", "b", "c", "d",  5,  5, 20),
    MacroCall("GG", "d", "a", "b", "c", 10,  9, 21),
    MacroCall("GG", "c", "d", "a", "b", 15, 14, 22),
    MacroCall("GG", "b", "c", "d", "a",  4, 20, 23),
    MacroCall("GG", "a", "b", "c", "d",  9,  5, 24),
    MacroCall("GG", "d", "a", "b", "c", 14,  9, 25),
    MacroCall("GG", "c", "d", "a", "b",  3, 14, 26),
    MacroCall("GG", "b", "c", "d", "a",  8, 20, 27),
    MacroCall("GG", "a", "b", "c", "d", 13,  5, 28),
    MacroCall("GG", "d", "a", "b", "c",  2,  9, 29),
    MacroCall("GG", "c", "d", "a", "b",  7, 14, 30),
    MacroCall("GG", "b", "c", "d", "a", 12, 20, 31),

    MacroCall("HH", "a", "b", "c", "d",  5,  4, 32),
    MacroCall("HH", "d", "a", "b", "c",  8, 11, 33),
    MacroCall("HH", "c", "d", "a", "b", 11, 16, 34),
    MacroCall("HH", "b", "c", "d", "a", 14, 23, 35),
    MacroCall("HH", "a", "b", "c", "d",  1,  4, 36),
    MacroCall("HH", "d", "a", "b", "c",  4, 11, 37),
    MacroCall("HH", "c", "d", "a", "b",  7, 16, 38),
    MacroCall("HH", "b", "c", "d", "a", 10, 23, 39),
    MacroCall("HH", "a", "b", "c", "d", 13,  4, 40),
    MacroCall("HH", "d", "a", "b", "c",  0, 11, 41),
    MacroCall("HH", "c", "d", "a", "b",  3, 16, 42),
    MacroCall("HH", "b", "c", "d", "a",  6, 23, 43),
    MacroCall("HH", "a", "b", "c", "d",  9,  4, 44),
    MacroCall("HH", "d", "a", "b", "c", 12, 11, 45),
    MacroCall("HH", "c", "d", "a", "b", 15, 16, 46),
    MacroCall("HH", "b", "c", "d", "a",  2, 23, 47),

    MacroCall("II", "a", "b", "c", "d",  0,  6, 48),
    MacroCall("II", "d", "a", "b", "c",  7, 10, 49),
    MacroCall("II", "c", "d", "a", "b", 14, 15, 50),
    MacroCall("II", "b", "c", "d", "a",  5, 21, 51),
    MacroCall("II", "a", "b", "c", "d", 12,  6, 52),
    MacroCall("II", "d", "a", "b", "c",  3, 10, 53),
    MacroCall("II", "c", "d", "a", "b", 10, 15, 54),
    MacroCall("II", "b", "c", "d", "a",  1, 21, 55),
    MacroCall("II", "a", "b", "c", "d",  8,  6, 56),
    MacroCall("II", "d", "a", "b", "c", 15, 10, 57),
    MacroCall("II", "c", "d", "a", "b",  6, 15, 58),
    MacroCall("II", "b", "c", "d", "a", 13, 21, 59),
    MacroCall("II", "a", "b", "c", "d",  4,  6, 60),
    MacroCall("II", "d", "a", "b", "c", 11, 10, 61),
    MacroCall("II", "c", "d", "a", "b",  2, 15, 62),
    MacroCall("II", "b", "c", "d", "a",  9, 21, 63) >>

\* the element of a one-element set; used as {e(x) : x \in {v}} to compute
\* v once, before e
Only(S) == CHOOSE r \in S : TRUE

\* one call: register r1 is assigned, the others are read
Step(st, M, c) ==
    LET x  == M[c.k]
        ac == T[c.t + 1]
        v  == CASE c.op = "FF" -> FF(st[c.r1], st[c.r2], st[c.r3], st[c.r4], x, c.s, ac)
                [] c.op = "GG" -> GG(st[c.r1], st[c.r2], st[c.r3], st[c.r4], x, c.s, ac)
                [] c.op = "HH" -> HH(st[c.r1], st[c.r2], st[c.r3], st[c.r4], x, c.s, ac)
                [] c.op = "II" -> II(st[c.r1], st[c.r2], st[c.r3], st[c.r4], x, c.s, ac)
    IN  [st EXCEPT ![c.r1] = v]

\* the calls from .. to, in order, on the local a, b, c, d; the range is
\* halved so that the evaluation stays shallow
RECURSIVE Steps(_, _, _, _)
Steps(st, M, from, to) ==
    Only({ IF from = to THEN Step(s, M, MacroCalls[from])
           ELSE LET mid == (from + to) \div 2
                IN  Steps(Steps(s, M, from, mid), M, mid + 1, to)
           : s \in {st} })

\* M[i] = block[4i] | block[4i+1] << 8 | block[4i+2] << 16 | block[4i+3] << 24
BlockWords(block) ==
    [i \in 0..15 |-> W(block[i * 4 + 3] + block[i * 4 + 4] * 256,
                       block[i * 4 + 1] + block[i * 4 + 2] * 256)]

\* one 64-byte block
md5HandleBlock(ctx, block) ==
    Only({ Only({ [c EXCEPT !.a = Add32(c.a, st.a), !.b = Add32(c.b, st.b),
                            !.c = Add32(c.c, st.c), !.d = Add32(c.d, st.d)]
                  : st \in {Steps([a |-> c.a, b |-> c.b, c |-> c.c, d |-> c.d],
                                  M, 1, Len(MacroCalls))} })
           : c \in {ctx}, M \in {BlockWords(block)} })

\* memcpy(dst + at, src + from, n) on byte sequences (from, at count from 0)
CopyInto(dst, at, src, from, n) ==
    [i \in 1..Len(dst) |-> IF i > at /\ i <= at + n THEN src[from + i - at] ELSE dst[i]]

Higher(a, b) == IF b > a THEN b ELSE a

\* the if (ctx->blen > 0) part of __md5UpdateLen: the buffered bytes are
\* completed from the input; offset is what was taken from the input
md5FillBuffer(ctx, in) ==
    LET room == 64 - ctx.blen
        copy == IF room > Len(in) THEN Len(in) ELSE room
    IN  IF ctx.blen > 0
        THEN Only({ [ctx |-> IF c1.blen = 64
                             THEN [md5HandleBlock(c1, c1.buff) EXCEPT !.blen = 0]
                             ELSE c1,
                     offset |-> copy]
                    : c1 \in {[ctx EXCEPT !.buff = CopyInto(ctx.buff, ctx.blen, in, 0, copy),
                                          !.blen = ctx.blen + copy,
                                          !.top  = Higher(ctx.top, ctx.blen + copy)]} })
        ELSE [ctx |-> ctx, offset |-> 0]

\* the while loop of __md5UpdateLen: whole blocks straight from the input
RECURSIVE md5Blocks(_, _, _)
md5Blocks(ctx, in, offset) ==
    IF Len(in) - offset >= 64
    THEN Only({ md5Blocks(c, in, offset + 64)
                : c \in {md5HandleBlock(ctx, SubSeq(in, offset + 1, offset + 64))} })
    ELSE [ctx |-> ctx, offset |-> offset]

\* the if (len > offset) part: the rest of the input goes to the buffer
md5KeepRest(ctx, in, offset) ==
    IF Len(in) > offset
    THEN [ctx EXCEPT !.blen = Len(in) - offset,
                     !.buff = CopyInto(ctx.buff, 0, in, offset, Len(in) - offset),
                     !.top  = Higher(ctx.top, Len(in) - offset)]
    ELSE ctx

md5UpdateLen(ctx, in, update_len) ==
    Only({ Only({ Only({ md5KeepRest(w.ctx, in, w.offset)
                         : w \in {md5Blocks(c1.ctx, in, c1.offset)} })
                  : c1 \in {md5FillBuffer(c0, in)} })
           : c0 \in {IF update_len THEN [ctx EXCEPT !.size = ctx.size + Len(in)] ELSE ctx} })

md5Update(ctx, in) == md5UpdateLen(ctx, in, TRUE)

\* byte i of a 64-bit count, least significant first
RECURSIVE LengthByte(_, _)
LengthByte(bits, i) == IF i = 0 THEN bits % 256 ELSE LengthByte(bits \div 256, i - 1)

WordBytes(w) == << w.lo % 256, w.lo \div 256, w.hi % 256, w.hi \div 256 >>

\* uint8_t padding[64] = {0x80}
Padding == [i \in 1..64 |-> IF i = 1 THEN 128 ELSE 0]

\* a pad length that fills the current block only
md5PadLenToBlockEnd(ctx) == 64 - ctx.blen

\* size_t pad_len = (ctx->blen < 56) ? (56 - ctx->blen) : (120 - ctx->blen)
md5PadLen(ctx) == IF ctx.blen < 56 THEN 56 - ctx.blen ELSE 120 - ctx.blen

\* length_bytes: the bit count of size bytes, 8 bytes, least significant first
LengthBytes(size) == [i \in 1..8 |-> LengthByte(size * 8, i - 1)]

\* md5_finalize: the padding, the bit count, and the digest written to out.
\* Besides out the result records pad_len, the two byte strings passed to
\* __md5UpdateLen, and ctx->blen (with top) after each of the two calls.
md5_finalize(ctx) ==
    Only({ Only({ Only({ [out |-> WordBytes(c2.a) \o WordBytes(c2.b)
                                   \o WordBytes(c2.c) \o WordBytes(c2.d),
                          pad_len |-> md5PadLen(c),
                          pad |-> SubSeq(Padding, 1, md5PadLen(c)),
                          length_bytes |-> LengthBytes(c.size),
                          blen0 |-> c.blen, blen1 |-> c1.blen, blen2 |-> c2.blen,
                          top |-> c2.top]
                         : c2 \in {md5UpdateLen(c1, LengthBytes(c.size), FALSE)} })
                  : c1 \in {md5UpdateLen(c, SubSeq(Padding, 1, md5PadLen(c)), FALSE)} })
           : c \in {ctx} })

md5Digest(data) == Only({ md5_finalize(c) : c \in {md5Update(md5Init, data)} })

NoFinal == [pad_len |-> 0, pad |-> <<>>, length_bytes |-> <<>>,
            blen0 |-> 0, blen1 |-> 0, blen2 |-> 0, top |-> 0]

Digest ==
    /\ md5.pc = "start"
    /\ LET r == md5Digest(md5.data)
       IN  md5' = [md5 EXCEPT !.pc = "done", !.out = r.out,
                              !.fin = [f \in DOMAIN NoFinal |-> r[f]]]
    /\ UNCHANGED <<vecVars, dictVars, b64, args, str, alloc>>

InitMd5 ==
    /\ \E x \in Md5Inputs : md5 = [pc |-> "start", data |-> x, out |-> <<>>, fin |-> NoFinal]
    /\ VecIdle /\ DictIdle /\ B64Idle /\ ArgsIdle /\ StrIdle /\ AllocIdle

NextMd5 == Digest

SpecMd5 == InitMd5 /\ [][NextMd5]_vars

\* d41d8cd98f00b204e9800998ecf8427e
Md5OfEmpty == << \Hd4, \H1d, \H8c, \Hd9, \H8f, \H00, \Hb2, \H04,
                 \He9, \H80, \H09, \H98, \Hec, \Hf8, \H42, \H7e >>
\* 900150983cd24fb0d6963f7d28e17f72
Md5OfAbc   == << \H90, \H01, \H50, \H98, \H3c, \Hd2, \H4f, \Hb0,
                 \Hd6, \H96, \H3f, \H7d, \H28, \He1, \H7f, \H72 >>
\* 9e107d9d372bb6826bd81d3542a419d6
Md5OfFox   == << \H9e, \H10, \H7d, \H9d, \H37, \H2b, \Hb6, \H82,
                 \H6b, \Hd8, \H1d, \H35, \H42, \Ha4, \H19, \Hd6 >>

\* C18: md5Digest writes the reference MD5 value for the empty input, for
\* "abc" and for "The quick brown fox jumps over the lazy dog".
C18_KnownDigests ==
    md5.pc = "done" =>
        /\ md5.data = <<>> => md5.out = Md5OfEmpty
        /\ md5.data = Abc  => md5.out = Md5OfAbc
        /\ md5.data = Fox  => md5.out = Md5OfFox

\* the three messages have been digested (this one: the 43-byte message)
C18_Witness ==
    md5.pc = "done" /\ md5.data = Fox /\ md5.out = Md5OfFox

(***************************************************************************)
(* Command-line arguments (utils_src/args.c)                               *)
(*                                                                         *)
(* A C string is the sequence of its characters, a one-character string    *)
(* each; reading the position after the last character gives NUL.  argv    *)
(* is the whole vector, program name first: argv[i] of the code is         *)
(* Argv(argv, i).                                                          *)
(***************************************************************************)
MaxArgs == 3              \* argument vectors with argc - 1 in 0..MaxArgs are explored

NUL     == "NUL"
NullStr == <<"NULL">>     \* the null pointer where a string is expected

Chr(s, k) == IF k < Len(s) THEN s[k + 1] ELSE NUL

Take(s, n) == SubSeq(s, 1, IF n < Len(s) THEN n ELSE Len(s))
Drop(s, n) == SubSeq(s, n + 1, Len(s))

\* strncmp(a, b, n) == 0
strncmpEq(a, b, n) == Take(a, n) = Take(b, n)

\* strchr(s, c): the offset of the first c at or after offset from, -1 for NULL
RECURSIVE strchr(_, _, _)
strchr(s, c, from) ==
    IF from >= Len(s) THEN 0 - 1
    ELSE IF s[from + 1] = c THEN from
    ELSE strchr(s, c, from + 1)

Digits == <<"0", "1", "2", "3", "4", "5", "6", "7", "8", "9">>
IsDigit(c) == \E k \in 1..10 : Digits[k] = c
DigitVal(c) == (CHOOSE k \in 1..10 : Digits[k] = c) - 1

\* isspace in the C locale; VT is the vertical tab
VT == "VT"
IsSpace(c) == c \in {" ", "\t", "\n", VT, "\f", "\r"}

\* the offset of the first character of s at or after k that is not white space
RECURSIVE SkipSpace(_, _)
SkipSpace(s, k) == IF IsSpace(Chr(s, k)) THEN SkipSpace(s, k + 1) ELSE k

\* a long as four 16-bit limbs, lowest first; over: the value no longer fits
\* in 64 bits
LongZero == [l |-> <<0, 0, 0, 0>>, over |-> FALSE]

\* acc * 10 + d
Times10Plus(acc, d) ==
    LET t0 == acc.l[1] * 10 + d
        t1 == acc.l[2] * 10 + (t0 \div 65536)
        t2 == acc.l[3] * 10 + (t1 \div 65536)
        t3 == acc.l[4] * 10 + (t2 \div 65536)
    IN  [l |-> <<t0 % 65536, t1 % 65536, t2 % 65536, t3 % 65536>>,
         over |-> acc.over \/ t3 >= 65536]

\* the digits strtol reads from offset k on
RECURSIVE LongRun(_, _, _)
LongRun(s, k, acc) ==
    IF IsDigit(Chr(s, k)) THEN LongRun(s, k + 1, Times10Plus(acc, DigitVal(Chr(s, k))))
    ELSE acc

\* the int with these low 32 bits
ToInt32(hi, lo) == IF hi < 32768 THEN hi * 65536 + lo ELSE (hi - 65536) * 65536 + lo

\* (int)(-x) for an int x
Neg32(x) == IF x = (0 - 32768) * 65536 THEN x ELSE 0 - x

\* atoi(s) is (int) strtol(s, NULL, 10): white space is skipped, then an
\* optional sign and the leading digits are read, 0 when there are none.
\* The long saturates at LONG_MAX / LONG_MIN and the conversion to int keeps
\* its low 32 bits (a value outside int is undefined for atoi; this is what
\* the library of the build returns).
atoi(s) ==
    LET k0     == SkipSpace(s, 0)
        signed == Chr(s, k0) \in {"-", "+"}
        run    == LongRun(s, IF signed THEN k0 + 1 ELSE k0, LongZero)
        low    == ToInt32(run.l[2], run.l[1])
    IN  IF Chr(s, k0) = "-"
        THEN IF run.over \/ run.l[4] > 32768
                \/ (run.l[4] = 32768 /\ (run.l[3] > 0 \/ low # 0))
             THEN 0 ELSE Neg32(low)
        ELSE IF run.over \/ run.l[4] >= 32768 THEN 0 - 1 ELSE low

\* tolower in the C locale
UpperCase == <<"A", "B", "C", "D", "E", "F", "G", "H", "I", "J", "K", "L", "M",
               "N", "O", "P", "Q", "R", "S", "T", "U", "V", "W", "X", "Y", "Z">>
LowerCase == <<"a", "b", "c", "d", "e", "f", "g", "h", "i", "j", "k", "l", "m",
               "n", "o", "p", "q", "r", "s", "t", "u", "v", "w", "x", "y", "z">>
tolower(c) ==
    IF \E k \in 1..26 : UpperCase[k] = c
    THEN LowerCase[CHOOSE k \in 1..26 : UpperCase[k] = c] ELSE c

HexDigits == Digits \o <<"a", "b", "c", "d", "e", "f">>
IsXDigit(c) == \E k \in 1..16 : HexDigits[k] = tolower(c)
XDigitVal(c) == (CHOOSE k \in 1..16 : HexDigits[k] = tolower(c)) - 1

\* the characters of s from offset k on are the word w, in either case
MatchWord(s, k, w) == \A i \in 1..Len(w) : tolower(Chr(s, k + i - 1)) = w[i]

\* the end of the run of decimal (hex: hexadecimal) digits of s from offset k
RECURSIVE RunEnd(_, _, _)
RunEnd(s, k, hex) ==
    IF (IF hex THEN IsXDigit(Chr(s, k)) ELSE IsDigit(Chr(s, k)))
    THEN RunEnd(s, k + 1, hex) ELSE k

\* the values of the digits of s at offsets from..to-1
DigitsAt(s, from, to) == [i \in 1..(to - from) |-> XDigitVal(Chr(s, from + i - 1))]

\* An exponent of this size or more, with either sign, puts the value of the
\* token s outside the range of a double whatever its digits are: a mantissa
\* of s has fewer than Len(s) digits, which shift the decimal exponent by less
\* than Len(s) and the binary one by less than 4 * Len(s), and the range of a
\* double ends before 10^309 and 2^1025 and after 10^-325 and 2^-1076.  strtod
\* returns the same double for every exponent from here on
ExpLimit(s) == 4 * Len(s) + 2000

\* the value of the run of decimal digits of s from offset k on, read as
\* ExpLimit(s) once it is that much
RECURSIVE ExpRun(_, _, _)
ExpRun(s, k, acc) ==
    IF IsDigit(Chr(s, k))
    THEN ExpRun(s, k + 1, IF acc * 10 + DigitVal(Chr(s, k)) > ExpLimit(s) THEN ExpLimit(s)
                          ELSE acc * 10 + DigitVal(Chr(s, k)))
    ELSE acc

\* the exponent part at offset k: mark ("e" or "p"), an optional sign and at
\* least one decimal digit; 0 when there is no such part
Exponent(s, k, mark) ==
    LET signed == Chr(s, k + 1) \in {"-", "+"}
        from   == IF signed THEN k + 2 ELSE k + 1
    IN  IF tolower(Chr(s, k)) = mark /\ IsDigit(Chr(s, from))
        THEN IF Chr(s, k + 1) = "-" THEN 0 - ExpRun(s, from, 0) ELSE ExpRun(s, from, 0)
        ELSE 0

\* A natural number of any size is the sequence of its decimal digits, the
\* most significant first.  2 * D + bit, bit in 0..1: the carry into a digit
\* is 1 exactly when the digit below it is 5 or more
Double(D, bit) ==
    LET n == Len(D)
        r == [i \in 1..n |->
                (2 * D[i] + (IF i < n THEN (IF D[i + 1] >= 5 THEN 1 ELSE 0) ELSE bit)) % 10]
    IN  IF D[1] >= 5 THEN <<1>> \o r ELSE r

\* 5 * D, as half of 10 * D
Times5(D) ==
    LET E == D \o <<0>>
        r == [i \in 1..Len(E) |->
                (E[i] \div 2) + (IF i > 1 /\ E[i - 1] % 2 = 1 THEN 5 ELSE 0)]
    IN  IF r[1] = 0 THEN Tail(r) ELSE r

\* D * 2^n
RECURSIVE Doubles(_, _)
Doubles(D, n) ==
    IF n = 0 THEN D
    ELSE IF n = 1 THEN Only({ Double(d, 0) : d \in {D} })
    ELSE Only({ Doubles(d, n - (n \div 2)) : d \in {Doubles(D, n \div 2)} })

\* D * 5^n
RECURSIVE Fives(_, _)
Fives(D, n) ==
    IF n = 0 THEN D
    ELSE IF n = 1 THEN Only({ Times5(d) : d \in {D} })
    ELSE Only({ Fives(d, n - (n \div 2)) : d \in {Fives(D, n \div 2)} })

\* the number with the hexadecimal digits hx, the most significant first
RECURSIVE HexToDec(_, _, _)
HexToDec(hx, k, acc) ==
    IF k > Len(hx) THEN acc
    ELSE HexToDec(hx, k + 1,
            Only({ Double(d3, (hx[k]) % 2)
                   : d3 \in { Only({ Double(d2, (hx[k] \div 2) % 2)
                      : d2 \in { Only({ Double(d1, (hx[k] \div 4) % 2)
                         : d1 \in { Only({ Double(d0, (hx[k] \div 8) % 2)
                            : d0 \in {acc} }) } }) } }) } }))

\* What strtod returns.  A finite value is the double nearest to
\* (-1)^neg * d1.d2...dn * 10^exp, for the digits d1..dn without leading or
\* trailing zeros; zero has no digits.
DblZero(neg) == [kind |-> "finite", neg |-> neg, digits |-> <<>>, exp |-> 0]
DblInf(neg)  == [kind |-> "inf", neg |-> neg, digits |-> <<>>, exp |-> 0]
DblNan(neg)  == [kind |-> "nan", neg |-> neg, digits |-> <<>>, exp |-> 0]

\* 2^1024 - 2^970, half way between DBL_MAX and 2^1024: from here on a value
\* rounds to infinity.  Its decimal exponent is DblMaxExp
DblMaxEdge == Doubles(<<1, 8, 0, 1, 4, 3, 9, 8, 5, 0, 9, 4, 8, 1, 9, 8, 3>>, 970)
DblMaxExp  == 308

\* the digits of 2^-1075, half of the least positive double: up to here a
\* value rounds to zero.  Its decimal exponent is DblMinExp
DblMinEdge == Fives(<<1>>, 1075)
DblMinExp  == 0 - 324

\* d1.d2... of a is less than that of b
LtDigits(a, b) ==
    LET DigitAt(x, i) == IF i <= Len(x) THEN x[i] ELSE 0
        n == IF Len(a) > Len(b) THEN Len(a) ELSE Len(b)
    IN  \E i \in 1..n : DigitAt(a, i) < DigitAt(b, i) /\ \A j \in 1..(i - 1) : DigitAt(a, j) = DigitAt(b, j)

\* the double for d1.d2...dn * 10^exp, d1 not 0
InRange(neg, digits, exp) ==
    IF exp > DblMaxExp \/ (exp = DblMaxExp /\ ~LtDigits(digits, DblMaxEdge))
    THEN DblInf(neg)
    ELSE IF exp < DblMinExp \/ (exp = DblMinExp /\ ~LtDigits(DblMinEdge, digits))
    THEN DblZero(neg)
    ELSE [kind |-> "finite", neg |-> neg, digits |-> digits, exp |-> exp]

\* the double for the natural number M times 10^p
Rounded(neg, M, p) ==
    IF \A i \in 1..Len(M) : M[i] = 0 THEN DblZero(neg)
    ELSE Only({ InRange(neg, SubSeq(M, a, b), (Len(M) - a) + p)
                : a \in {CHOOSE i \in 1..Len(M) : M[i] # 0 /\ \A j \in 1..(i - 1) : M[j] = 0},
                  b \in {CHOOSE i \in 1..Len(M) : M[i] # 0 /\ \A j \in (i + 1)..Len(M) : M[j] = 0} })

\* the digits at offset k, with an optional point: the digits read, how
\* many of them follow the point, and the offset after them
Mantissa(s, k, hex) ==
    Only({ Only({ [digits |-> DigitsAt(s, k, int_end)
                              \o (IF frac_end > int_end THEN DigitsAt(s, int_end + 1, frac_end)
                                  ELSE <<>>),
                   frac   |-> IF frac_end > int_end THEN frac_end - int_end - 1 ELSE 0,
                   end    |-> frac_end]
                  : frac_end \in {IF Chr(s, int_end) = "." THEN RunEnd(s, int_end + 1, hex)
                                  ELSE int_end} })
           : int_end \in {RunEnd(s, k, hex)} })

\* the double for the hexadecimal digits hx times 2^b
HexValue(neg, hx, b) ==
    IF \A i \in 1..Len(hx) : hx[i] = 0 THEN DblZero(neg)
    ELSE IF b > 1100 THEN DblInf(neg)
    ELSE IF 4 * Len(hx) + b < 0 - 1200 THEN DblZero(neg)
    ELSE Only({ Rounded(neg, m, IF b >= 0 THEN 0 ELSE b)
                : m \in {IF b >= 0 THEN Doubles(HexToDec(hx, 1, <<0>>), b)
                         ELSE Fives(HexToDec(hx, 1, <<0>>), 0 - b)} })

\* the hexadecimal form, k the offset after "0x": hexadecimal digits with an
\* optional point, then an optional binary exponent
HexFloat(s, k, neg) ==
    Only({ Only({ HexValue(neg, m.digits, b)
                  : b \in {Exponent(s, m.end, "p") - 4 * m.frac} })
           : m \in {Mantissa(s, k, TRUE)} })

\* the decimal form at offset k: digits with an optional point, at least one
\* digit, then an optional decimal exponent; +0 when there is no digit
DecFloat(s, k, neg) ==
    Only({ IF m.digits = <<>> THEN DblZero(FALSE)
           ELSE Rounded(neg, m.digits, Exponent(s, m.end, "e") - m.frac)
           : m \in {Mantissa(s, k, FALSE)} })

\* strtod after the white space, k0 the offset of the sign if there is one:
\* the longest of the forms inf / infinity, nan, 0x hexadecimal and decimal,
\* in either case
Float(s, k0) ==
    Only({ IF MatchWord(s, k, <<"i", "n", "f">>) THEN DblInf(Chr(s, k0) = "-")
           ELSE IF MatchWord(s, k, <<"n", "a", "n">>) THEN DblNan(Chr(s, k0) = "-")
           ELSE IF /\ Chr(s, k) = "0" /\ tolower(Chr(s, k + 1)) = "x"
                   /\ \/ IsXDigit(Chr(s, k + 2))
                      \/ Chr(s, k + 2) = "." /\ IsXDigit(Chr(s, k + 3))
                THEN HexFloat(s, k + 2, Chr(s, k0) = "-")
           ELSE DecFloat(s, k, Chr(s, k0) = "-")
           : k \in {IF Chr(s, k0) \in {"-", "+"} THEN k0 + 1 ELSE k0} })

\* atof(nptr) is strtod(nptr, NULL): white space is skipped, then an optional
\* sign and the number are read
atof(nptr) == Only({ Only({ Float(s, k0) : k0 \in {SkipSpace(s, 0)} }) : s \in {nptr} })

\* what a destination holds
NotWritten == [t |-> "unset"]
BoolVal(b) == [t |-> "bool", b |-> b]
IntVal(n)  == [t |-> "int", n |-> n]
DblVal(q)  == [t |-> "dbl", d |-> q]
StrVal(s)  == [t |-> "str", s |-> s]      \* a char * to the characters s

\* the while (alias) loop of __isFlagDec: alias starts at offset start of l_rep
RECURSIVE AliasMatches(_, _, _)
AliasMatches(l_rep, start, arg_name) ==
    LET alias == Drop(l_rep, start)
        next  == strchr(l_rep, ",", start)
        len   == IF next >= 0 THEN next - start ELSE Len(alias)
    IN  IF strncmpEq(alias, arg_name, len) /\ Chr(arg_name, len) \in {NUL, "="}
        THEN TRUE
        ELSE IF next >= 0 THEN AliasMatches(l_rep, next + 1, arg_name)
        ELSE FALSE

isFlagDec(argument, s_rep, l_rep) ==
    IF argument = NullStr THEN FALSE
    ELSE IF strncmpEq(argument, <<"-", "-">>, 2) /\ l_rep # NullStr
         THEN AliasMatches(l_rep, 0, Drop(argument, 2))
    ELSE IF /\ strncmpEq(argument, <<"-">>, 1) /\ s_rep # NullStr
            /\ Chr(argument, 1) # NUL /\ Chr(argument, 2) = NUL
         THEN \E k \in 1..Len(s_rep) : s_rep[k] = Chr(argument, 1)
    ELSE IF l_rep # NullStr
         THEN argument = l_rep
    ELSE FALSE

Argv(argv, i) == argv[i + 1]

\* a matched option: spec is its place in the table, at the argv index of
\* the token that matched, took the argv index of the token consumed as its
\* value (0: none), stored what was written to the destination (NotWritten:
\* nothing)
Event(idx, at, took, stored) == [spec |-> idx, at |-> at, took |-> took, stored |-> stored]

\* the body of the switch for one matching spec.  argument is argv[at], set
\* once for all the specs of the table; st.i is the loop variable i, which an
\* earlier spec matching the same argument may have moved on with argv[++i]
Matched(st, ctx, idx, argv, at) ==
    LET spec == ctx[idx]
        argc == Len(argv)
        argument == Argv(argv, at)
        i    == st.i
        s1   == [st EXCEPT !.found[idx] = TRUE]
        val  == strchr(argument, "=", 0)
        Conv(s) == IF spec.type = "DU_ARG_INT" THEN IntVal(atoi(s)) ELSE DblVal(atof(s))
        Store(s, took, v) ==
            [s EXCEPT !.out[idx] = v, !.log = Append(s.log, Event(idx, at, took, v))]
        Fail(s) ==
            [s EXCEPT !.isGood = FALSE, !.log = Append(s.log, Event(idx, at, 0, NotWritten))]
    IN  CASE spec.type = "DU_ARG_BOL" ->
               IF spec.out THEN Store(s1, 0, BoolVal(TRUE)) ELSE s1
          [] spec.type \in {"DU_ARG_INT", "DU_ARG_DBL"} ->
               IF ~spec.out THEN s1
               ELSE IF val >= 0 THEN Store(s1, 0, Conv(Drop(argument, val + 1)))
               ELSE IF i + 1 < argc
                    THEN [Store(s1, i + 1, Conv(Argv(argv, i + 1))) EXCEPT !.i = i + 1]
               ELSE Fail(s1)
          [] spec.type = "DU_ARG_STR" ->
               IF ~spec.out THEN s1
               ELSE IF i + 1 < argc
                    THEN [Store(s1, i + 1, StrVal(Argv(argv, i + 1))) EXCEPT !.i = i + 1]
               ELSE Fail(s1)

\* the inner loop: every spec of the table against the same argument, argv[at]
RECURSIVE ScanSpecs(_, _, _, _, _)
ScanSpecs(st, ctx, idx, argv, at) ==
    IF idx > Len(ctx) THEN st
    ELSE ScanSpecs(IF isFlagDec(Argv(argv, at), ctx[idx].s_rep, ctx[idx].l_rep)
                   THEN Matched(st, ctx, idx, argv, at) ELSE st,
                   ctx, idx + 1, argv, at)

\* the outer loop: for (i = 1; i < argc; i++)
RECURSIVE ScanArgv(_, _, _)
ScanArgv(st, ctx, argv) ==
    IF ~(st.i < Len(argv)) THEN st
    ELSE LET s1 == ScanSpecs(st, ctx, 1, argv, st.i)
         IN  ScanArgv([s1 EXCEPT !.i = s1.i + 1], ctx, argv)

\* bool parseArgs(ArgSpec *ctx, int argc, char **argv), ctx not NULL; out0
\* is what the destinations hold at the call
parseArgs(ctx, argv, out0) ==
    LET st0 == [i |-> 1, isGood |-> TRUE, found |-> [k \in 1..Len(ctx) |-> FALSE],
                out |-> out0, log |-> <<>>]
    IN  IF Len(argv) = 1 THEN [ret |-> FALSE, out |-> out0, log |-> <<>>]
        ELSE LET st == ScanArgv(st0, ctx, argv)
                 missing == \E k \in 1..Len(ctx) : ctx[k].is_req /\ ~st.found[k]
             IN  [ret |-> st.isGood /\ ~missing, out |-> st.out, log |-> st.log]

ArgSpec(s_rep, l_rep, type, is_req) ==
    [s_rep |-> s_rep, l_rep |-> l_rep, out |-> TRUE, type |-> type, is_req |-> is_req]

\* the table of utils/argparse.c, with max and output required or not
ArgTable(req_max, req_out) ==
    << ArgSpec(<<"v", "V">>, <<"v", "e", "r", "b", "o", "s", "e", ",", "v", "e", "r", "b", "o", "s", "e", "_", "o", "u", "t", "p", "u", "t">>, "DU_ARG_BOL", FALSE),
       ArgSpec(<<"m">>, <<"m", "a", "x", ",", "m", "a", "x", "i", "m", "u", "m">>, "DU_ARG_INT", req_max),
       ArgSpec(NullStr, <<"d", "b", "l">>, "DU_ARG_DBL", FALSE),
       ArgSpec(<<"o">>, <<"o", "u", "t", "p", "u", "t">>, "DU_ARG_STR", req_out) >>

\* a table in which one token matches two specs: max is an alias of both
SharedAliasTable ==
    << ArgSpec(<<"m">>, <<"m", "a", "x">>, "DU_ARG_INT", FALSE),
       ArgSpec(<<"o">>, <<"o", "u", "t", "p", "u", "t", ",", "m", "a", "x">>, "DU_ARG_STR", FALSE) >>

ArgTables == {ArgTable(rm, ro) : rm \in BOOLEAN, ro \in BOOLEAN} \cup {SharedAliasTable}

ProgName == <<"p">>

ArgTokens == { <<"-", "-", "m", "a", "x", "=", "5">>,
               <<"-", "-", "m", "a", "x">>,
               <<"-", "m">>,
               <<"5">>,
               <<" ", "-", "7", "x">>,
               <<"-", "-", "m", "a", "x", "=", "2", "1", "4", "7", "4", "8", "3", "6", "4", "8">>,
               <<"-", "-", "d", "b", "l", "=", "2", ".", "5">>,
               <<"-", "-", "d", "b", "l", "=", "1", "e", "3">>,
               <<"-", "-", "d", "b", "l", "=", "0", "x", "1", "p", "-", "1">>,
               <<"-", "-", "d", "b", "l", "=", "-", "i", "n", "f">>,
               <<"-", "-", "o", "u", "t", "p", "u", "t", "=", "f">>,
               <<"-", "-", "o", "u", "t", "p", "u", "t">>,
               <<"f">>,
               <<"-", "v">> }

ArgVectors == {<<ProgName>> \o a : a \in SeqsUpTo(ArgTokens, MaxArgs)}

Parse ==
    /\ args.pc = "start"
    /\ LET r == parseArgs(args.ctx, args.argv, args.out)
       IN  args' = [args EXCEPT !.pc = "done", !.ret = r.ret, !.out = r.out, !.log = r.log]
    /\ UNCHANGED <<vecVars, dictVars, b64, md5, str, alloc>>

InitArgs ==
    /\ \E ctx \in ArgTables, argv \in ArgVectors :
          args = [pc |-> "start", ctx |-> ctx, argv |-> argv,
                  out |-> [k \in 1..Len(ctx) |-> NotWritten], ret |-> FALSE, log |-> <<>>]
    /\ VecIdle /\ DictIdle /\ B64Idle /\ Md5Idle /\ StrIdle /\ AllocIdle

NextArgs == Parse

SpecArgs == InitArgs /\ [][NextArgs]_vars

ValueTaking == {"DU_ARG_INT", "DU_ARG_DBL", "DU_ARG_STR"}

\* the tokens argv[1..argc-1] in which option k of the table occurs
OccursAt(ctx, argv, k) ==
    {i \in 1..(Len(argv) - 1) : isFlagDec(Argv(argv, i), ctx[k].s_rep, ctx[k].l_rep)}

\* the token argv[i] carries a value after '=' or is followed by a token
ValueAvailable(argv, i) ==
    strchr(Argv(argv, i), "=", 0) >= 0 \/ i + 1 < Len(argv)

\* C19: parseArgs returns true if and only if every option marked required
\* occurs in argv and every value-taking option that occurs has a value
\* available, for every argc >= 1 and every table.
C19_ReturnValue ==
    args.pc = "done" =>
        (args.ret <=>
            /\ \A k \in 1..Len(args.ctx) :
                  args.ctx[k].is_req => OccursAt(args.ctx, args.argv, k) # {}
            /\ \A k \in 1..Len(args.ctx) :
                  args.ctx[k].type \in ValueTaking =>
                     \A i \in OccursAt(args.ctx, args.argv, k) :
                        ValueAvailable(args.argv, i))

\* the value a token stands for in a destination of the given type
ValueOf(type, s) ==
    CASE type = "DU_ARG_INT" -> IntVal(atoi(s))
      [] type = "DU_ARG_DBL" -> DblVal(atof(s))
      [] type = "DU_ARG_STR" -> StrVal(s)

IsLong(tok) == strncmpEq(tok, <<"-", "-">>, 2)

\* C20: for an integer, float or string option, a token --long=value stores
\* value in the destination and consumes no following token; a token --long
\* followed by a value token stores the value of that token.
C20_LongOptionValue ==
    args.pc = "done" =>
        \A n \in 1..Len(args.log) :
            LET e    == args.log[n]
                type == args.ctx[e.spec].type
                tok  == Argv(args.argv, e.at)
                eq   == strchr(tok, "=", 0)
            IN  (type \in ValueTaking /\ IsLong(tok)) =>
                   IF eq >= 0
                   THEN e.took = 0 /\ e.stored = ValueOf(type, Drop(tok, eq + 1))
                   ELSE e.at + 1 < Len(args.argv) =>
                           /\ e.took = e.at + 1
                           /\ e.stored = ValueOf(type, Argv(args.argv, e.at + 1))

\* a well-formed decimal integer: an optional sign, then digits to the end
WellFormedInt(s) ==
    LET first == IF Chr(s, 0) \in {"-", "+"} THEN 1 ELSE 0
    IN  /\ s # NullStr
        /\ first < Len(s)
        /\ \A k \in first..(Len(s) - 1) : IsDigit(Chr(s, k))

\* the text handed to the conversion for a logged option: what follows '='
\* in the token, else the token consumed as the value
ValueText(argv, e) ==
    LET tok == Argv(argv, e.at)
        eq  == strchr(tok, "=", 0)
    IN  IF eq >= 0 THEN Drop(tok, eq + 1) ELSE Argv(argv, e.took)

\* C21: when the value supplied for an integer option is not a well-formed
\* integer, parseArgs returns false and stores no number in the destination.
C21_MalformedIntRejected ==
    args.pc = "done" =>
        \A n \in 1..Len(args.log) :
            LET e    == args.log[n]
                tok  == Argv(args.argv, e.at)
                supplied == strchr(tok, "=", 0) >= 0 \/ e.took # 0
            IN  (/\ args.ctx[e.spec].type = "DU_ARG_INT"
                 /\ supplied
                 /\ ~WellFormedInt(ValueText(args.argv, e)))
                => (~args.ret /\ e.stored = NotWritten)

(***************************************************************************)
(* Strings (strCount, strSlice, strDup, strSplit) with the fat-pointer     *)
(* vector.  A string is the sequence of its characters; s is never NULL.   *)
(* strCount is followed one loop iteration at a time; offsets count from   *)
(* the start of s.  Allocations succeed.                                   *)
(***************************************************************************)
MaxStrLen    == 3         \* strings of up to this many characters are explored
MaxNeedleLen == 2         \* needles of up to this many characters
MaxCount     == 8         \* the loop of strCount is followed one iteration at a time
                          \* up to this count; a loop that ends counts to MaxStrLen + 1
                          \* at most

StrChars  == {"a", ","}
StrInputs == SeqsUpTo(StrChars, MaxStrLen)
Needles   == SeqsUpTo(StrChars, MaxNeedleLen)
Delims    == StrChars \cup {NUL}

\* strstr(s + p, needle): the offset in s of the first occurrence at or
\* after p, -1 for NULL; the empty needle is found at p itself
RECURSIVE strstr(_, _, _)
strstr(s, p, needle) ==
    IF p + Len(needle) > Len(s) THEN 0 - 1
    ELSE IF SubSeq(s, p + 1, p + Len(needle)) = needle THEN p
    ELSE strstr(s, p + 1, needle)

\* char needle[2] = { delim, '\0' } read as a string
NeedleOf(delim) == IF delim = NUL THEN <<>> ELSE <<delim>>

strDup(s) == s

strSlice(s, start, end) ==
    IF start >= Len(s) \/ start >= end THEN strDup(<<>>)
    ELSE SubSeq(s, start + 1, IF end > Len(s) THEN Len(s) ELSE end)

\* the result of strSplit: null for a NULL return, else the vector behind
\* the returned pointer, its cells holding char * values
NoParts == NoVector(8, "null")

\* the while (*p) loop of strSplit: p the offset of the cursor, l the start
\* of the current piece
RECURSIVE SplitLoop(_, _, _, _, _)
SplitLoop(parts, s, delim, p, l) ==
    IF p >= Len(s) THEN [parts |-> parts, l |-> l]
    ELSE IF s[p + 1] = delim
         THEN SplitLoop(fat_vecPush(parts, strSlice(s, l, p), "inplace"), s, delim, p + 1, p + 1)
         ELSE SplitLoop(parts, s, delim, p + 1, l)

\* strSplit once strCount(s, needle) has returned count; ok: the allocation
\* of vecNew went through
strSplit(s, delim, count, ok) ==
    LET p_len == count + 1
        \* vecNew(sizeof(char *), p_len, true): zero-filled cells are null pointers
        parts == [vecNew(8, p_len, TRUE, TRUE) EXCEPT !.mem = Fill(p_len, NullStr)]
    IN  IF p_len = 1 THEN [null |-> TRUE, parts |-> NoParts]
        ELSE IF vecNew(8, p_len, TRUE, ok).status = "null"
        THEN [null |-> TRUE, parts |-> NoParts]
        ELSE Only({ [null  |-> FALSE,
                     parts |-> fat_vecPush(w.parts,
                                           IF Len(s) > w.l THEN strSlice(s, w.l, Len(s))
                                           ELSE strDup(<<>>),
                                           "inplace")]
                    : w \in {SplitLoop(parts, s, delim, 0, 0)} })

\* one test of while ((p = strstr(p, needle))) and, when it holds, the body
CountStep ==
    /\ str.pc = "count"
    /\ str.c < MaxCount
    /\ LET q == strstr(str.s, str.p, str.needle)
       IN  str' = IF q >= 0
                  THEN [str EXCEPT !.c = str.c + 1, !.p = q + Len(str.needle)]
                  ELSE IF str.op = "strCount"
                       THEN [str EXCEPT !.pc = "done", !.ret = str.c]
                       ELSE [str EXCEPT !.pc = "split"]
    /\ UNCHANGED <<vecVars, dictVars, b64, md5, args, alloc>>

\* 2^63 further iterations of the loop of strCount taken at once, where an
\* iteration changes nothing but c: with the empty needle strstr(p, needle)
\* returns p itself and p += n_len adds 0.  c is a size_t, so these
\* iterations leave it at c + 2^63 modulo 2^64: the count is
\* str.c + str.half * 2^63, and 2^64 iterations bring it back to where it was
CountOn ==
    /\ str.pc = "count"
    /\ str.c = MaxCount
    /\ Len(str.needle) = 0
    /\ strstr(str.s, str.p, str.needle) = str.p
    /\ str' = [str EXCEPT !.half = 1 - str.half]
    /\ UNCHANGED <<vecVars, dictVars, b64, md5, args, alloc>>

\* strSplit after the call of strCount
SplitRest ==
    /\ str.pc = "split"
    /\ \E ok \in BOOLEAN :
          LET r == strSplit(str.s, str.delim, str.c, ok)
          IN  str' = [str EXCEPT !.pc = "done", !.null = r.null, !.parts = r.parts]
    /\ UNCHANGED <<vecVars, dictVars, b64, md5, args, alloc>>

StrCall(op, s, needle, delim) ==
    [pc |-> "count", op |-> op, s |-> s, needle |-> needle, delim |-> delim,
     p |-> 0, c |-> 0, half |-> 0, ret |-> 0, null |-> FALSE, parts |-> NoParts]

InitStr ==
    /\ \/ \E s \in StrInputs, needle \in Needles : str = StrCall("strCount", s, needle, NUL)
       \/ \E s \in StrInputs, delim \in Delims : str = StrCall("strSplit", s, NeedleOf(delim), delim)
    /\ VecIdle /\ DictIdle /\ B64Idle /\ Md5Idle /\ ArgsIdle /\ AllocIdle

NextStr ==
    \/ CountStep
    \/ CountOn
    \/ SplitRest

SpecStr == InitStr /\ [][NextStr]_vars

\* a call that has started goes on: the scheduling of a sequential program
FairSpecStr == SpecStr /\ WF_vars(NextStr)

\* the pieces of s between consecutive occurrences of d, empty ones included
RECURSIVE Pieces(_, _, _, _)
Pieces(s, d, p, l) ==
    IF p >= Len(s) THEN << SubSeq(s, l + 1, Len(s)) >>
    ELSE IF s[p + 1] = d THEN << SubSeq(s, l + 1, p) >> \o Pieces(s, d, p + 1, p + 1)
    ELSE Pieces(s, d, p + 1, l)

\* C22: for every non-null s and delimiter d, strSplit(s, d) returns a
\* NULL-terminated array whose elements, in order, are the count(d in s) + 1
\* substrings of s between consecutive delimiters, empty ones included.
C22_SplitPieces ==
    (str.pc = "done" /\ str.op = "strSplit") =>
        LET want == Pieces(str.s, str.delim, 0, 0)
            n    == Len(want)
        IN  /\ ~str.null
            /\ str.parts.length = n
            /\ Len(str.parts.mem) > n
            /\ SubSeq(str.parts.mem, 1, n) = want
            /\ str.parts.mem[n + 1] = NullStr

\* C29: strCount(s, needle) terminates for every s and every needle, the
\* empty needle included, and so does strSplit for every delimiter
\* character, NUL included.
C29_Terminates == <>(str.pc = "done")

(***************************************************************************)
(* Further claims about the vector                                         *)
(***************************************************************************)
\* C26: in every reachable state, also after a failed reallocation in
\* vecPush, no vecPush or vecSet has written a slot outside the allocated
\* storage, and the capacity field does not exceed the allocated slot count.
\* Stated for the steps: a vecPush or vecSet made where the capacity is
\* within the allocation writes inside it and leaves the capacity within it.
C26_WritesInsideAllocation ==
    [][(/\ vlast'.op \in {"push", "set"}
        /\ vec.status = "live" /\ vec.capacity <= Len(vec.mem))
       => /\ vec'.status # "ub_oob_write"
          /\ vec'.capacity <= Len(vec'.mem)]_vars

(***************************************************************************)
(* Further claims about the dictionary                                     *)
(***************************************************************************)
\* the step is a dictSet with a key no entry of the table has, on a usable
\* table, and its entry allocation went through
Inserts ==
    /\ dlast'.op = "set" /\ dict.status = "live" /\ dict.size > 0
    /\ dlast'.key # NullKey
    /\ PosOfBytes(dict, dlast'.key.bytes) = {}
    /\ ~nomem'

\* the chain (counted from 1) the key belongs to
BucketOf(d, key) == dictHashBytes(key.bytes, d.size) + 1

\* C24: a dictSet of a key not yet in the table puts the new entry at the
\* head of the chain with index hash(key) mod size, in front of that
\* chain's previous entries in unchanged order, and leaves every other
\* chain unchanged; every entry lies in the chain its key's hash indexes.
C24_PrependInOwnChain ==
    /\ [][Inserts =>
             dict'.entries =
                [dict.entries EXCEPT ![BucketOf(dict, dlast'.key)] =
                    <<[key |-> dlast'.key, val |-> dlast'.val]>> \o @]]_vars
    /\ []((dict.status = "live" /\ dict.size > 0) =>
             \A p \in EntryPos(dict) : p[1] = BucketOf(dict, EntryAt(dict, p).key))

\* a second key went into a chain that held an entry: it is the head, the
\* earlier entry follows it
C24_Witness ==
    /\ dict.status = "live" /\ dict.size = 2 /\ dlast.op = "set"
    /\ \E i \in 1..2 :
          /\ Len(dict.entries[i]) = 2
          /\ dict.entries[i][1].key = dlast.key
          /\ dict.entries[i][2].key.bytes # dlast.key.bytes

\* C27: on a table with free_val, a dictSet that is given a value which
\* has not been released leaves the entry of its key holding a value that
\* has not been passed to free_val, also when the key already holds that
\* same value reference.
C27_StoredValueNotReleased ==
    [][(/\ dlast'.op = "set" /\ dict.status = "live" /\ dict.size > 0
        /\ dict.free_val /\ dlast'.key # NullKey /\ dlast'.val # NULL
        /\ Times(frees, Call("free_val", NullKey, dlast'.val)) = 0)
       => \A p \in PosOfBytes(dict', dlast'.key.bytes) :
             Times(frees', Call("free_val", NullKey, EntryAt(dict', p).val)) = 0]_vars

\* C28: the bucket index of dictSet and dictGet is always defined and lies
\* in [0, size): no usable dictionary has a bucket count of 0 and no hash
\* is reduced modulo 0.
C28_BucketCountPositive ==
    /\ dict.status = "live" => dict.size > 0
    /\ dict.status # "ub_div_zero"

(***************************************************************************)
(* Further claims about md5                                                *)
(***************************************************************************)
\* the k bytes of x, least significant first
RECURSIVE LittleEndian(_, _)
LittleEndian(x, k) == IF k = 0 THEN <<>> ELSE <<x % 256>> \o LittleEndian(x \div 256, k - 1)

\* C25: for every message length md5_finalize appends 0x80, then zero
\* bytes, then the 8-byte little-endian bit length, the padded length being
\* a multiple of 64: pad_len is in 1..64, blen is 56 after the padding and 0
\* after the length bytes, and no write to buff goes beyond offset 64.
C25_Padding ==
    md5.pc = "done" =>
        LET f == md5.fin
            n == Len(md5.data)
        IN  /\ f.pad_len \in 1..64
            /\ f.pad = [i \in 1..f.pad_len |-> IF i = 1 THEN 128 ELSE 0]
            /\ f.length_bytes = LittleEndian(n * 8, 8)
            /\ (n + Len(f.pad) + Len(f.length_bytes)) % 64 = 0
            /\ f.blen0 = n % 64
            /\ f.blen1 = 56
            /\ f.blen2 = 0
            /\ f.top <= 64

\* messages that leave 0, 55, 56 and 63 bytes in the buffer have been
\* digested: this one is 64 + 56 - 64 = 56 bytes long and needs a second
\* block for its padding
C25_Witness ==
    /\ md5.pc = "done" /\ Len(md5.data) = 56
    /\ md5.fin.pad_len = 64 /\ md5.fin.blen1 = 56 /\ md5.fin.top = 64

(***************************************************************************)
(* Byte counts of the struct-handle vector (vecNew, vecPush, vecPop,        *)
(* vecReserve, vecFree).  capacity, length and the counts are uint32_t,    *)
(* held as two 16-bit halves; cell_size is uint16_t.  The product of a     *)
(* uint16_t (promoted to int) and a uint32_t is computed in unsigned int,  *)
(* modulo 2^32, and then converted to size_t.  block is the size of the    *)
(* block vec->data points at.                                              *)
(***************************************************************************)
MaxPushes == 2            \* vecPush calls per run
MaxPops   == 1            \* vecPop calls per run

CellSizes == {0, 1, 2, 8, 65535}
\* 0, 1, 3, 2^16, 2^30, 2^31, 3 * 2^30, 2^32 - 1
Capacities == { W(0, 0), W(0, 1), W(0, 3), W(1, 0), W(\H4000, 0), W(\H8000, 0),
                W(\Hc000, 0), W(\Hffff, \Hffff) }
\* new_capacity given to vecReserve: 0, 1, 3, 2^31
ReserveCapacities == { W(0, 0), W(0, 1), W(0, 3), W(\H8000, 0) }

NoRequest == W(0, 0)

\* what realloc may answer to a request of this many bytes: the block,
\* resized where it is ("inplace") or somewhere else ("moved"), NULL
\* ("fail") and, for 0 bytes, NULL after releasing the old block ("freed")
AllocOutcomes(bytes) ==
    IF bytes = W(0, 0) THEN {"fail", "freed", "inplace"} ELSE {"fail", "inplace", "moved"}

\* n bytes from offset off on lie inside a block of this many bytes
Within(off, n, block) ==
    LET lo == off.lo + n.lo
        hi == off.hi + n.hi + (lo \div 65536)
    IN  hi < 65536 /\ ~Lt32(block, W(hi, lo % 65536))

\* memcpy((char *)vec->data + (vec->cell_size * idx), val, vec->cell_size)
\* stays inside the block: the offset is computed in unsigned int
Fits(a, idx) == Within(Mul32(a.cell_size, idx), W(0, a.cell_size), a.block)

\* __vecPurge(vec): memset(vec->data, 0, vec->cell_size * vec->capacity)
vecPurgeBytes(a) ==
    IF Within(W(0, 0), Mul32(a.cell_size, a.capacity), a.block) THEN a
    ELSE [a EXCEPT !.pc = "ub_oob_write"]

\* the end of vecPush: vec->length++; vecSet(vec, vec->length - 1, val)
PushCell(a) ==
    LET idx == a.length
        a1  == [a EXCEPT !.length = Inc32(a.length)]
    IN  IF ~Lt32(idx, a1.length) THEN [a1 EXCEPT !.pc = "abort"]
        ELSE IF ~Fits(a1, idx) THEN [a1 EXCEPT !.pc = "ub_oob_write"]
        ELSE a1

\* a call that asked the allocator for bytes, for a capacity of asked cells
Asked(a, op, asked, bytes) ==
    [a EXCEPT !.op = op, !.requested = TRUE, !.asked = asked, !.bytes = bytes]

\* a call that asked the allocator for nothing
NotAsked(a, op) ==
    [a EXCEPT !.op = op, !.requested = FALSE, !.asked = W(0, 0), !.bytes = NoRequest]

\* the variables the byte-count actions leave alone; pushOnly is kept as for
\* the vector: vecNew returned a vector and only pushes whose reallocation,
\* if any, succeeded were made since
BytesFrame == UNCHANGED <<variant, requested, vec, vlast, pushed, dictVars, b64, md5, args, str>>

\* the call returned to a caller that goes on
Returned(a) == a.pc \in {"live", "ub_oob_write"}

\* what the two malloc calls of vecNew may do: both return a block, the
\* first (the Vector) returns NULL, the second (the data) returns NULL
MallocOutcomes == {"went", "no_vector", "no_data"}

\* vecNew(cell_size, capacity_opt, do_clear); ma: what the allocator does
NewBytes(do_clear, ma) ==
    /\ alloc.pc = "start"
    /\ LET capacity == IF alloc.capacity_opt = W(0, 0) THEN W(0, DefaultCapacity)
                       ELSE alloc.capacity_opt
           bytes    == Mul32(alloc.cell_size, capacity)
       IN  alloc' = IF ~(alloc.cell_size > 0)
                    THEN [alloc EXCEPT !.pc = "abort"]
                    ELSE IF ma = "no_vector"
                    THEN [NotAsked(alloc, "new") EXCEPT !.pc = "null"]
                    ELSE IF ma = "no_data"
                    THEN [Asked(alloc, "new", capacity, bytes) EXCEPT !.pc = "null"]
                    ELSE LET v == [Asked(alloc, "new", capacity, bytes) EXCEPT
                                     !.pc = "live", !.capacity = capacity, !.block = bytes]
                         IN  IF do_clear THEN vecPurgeBytes(v) ELSE v
    /\ pushOnly' = (alloc'.pc = "live")
    /\ BytesFrame

\* vecPush(vec, val); ra: what realloc answers when the vector grows
PushBytes(ra) ==
    /\ alloc.pc = "live" /\ alloc.pushes < MaxPushes
    /\ LET capacity == Double32(alloc.capacity)
           bytes    == Mul32(alloc.cell_size, capacity)
           a0       == [alloc EXCEPT !.pushes = alloc.pushes + 1]
           a1       == [Asked(a0, "push", capacity, bytes) EXCEPT !.capacity = capacity]
       IN  IF alloc.length = alloc.capacity
           THEN /\ ra \in AllocOutcomes(bytes)
                /\ alloc' = CASE alloc.released -> [a1 EXCEPT !.pc = "ub_realloc_freed"]
                              [] ra = "fail"    -> a1
                              [] ra = "freed"   -> [a1 EXCEPT !.block = W(0, 0),
                                                              !.released = TRUE]
                              [] OTHER          -> PushCell([a1 EXCEPT !.block = bytes])
           ELSE alloc' = PushCell(NotAsked(a0, "push"))
    /\ pushOnly' = (/\ pushOnly /\ Returned(alloc')
                    /\ alloc.length = alloc.capacity =>
                          ~alloc.released /\ ra \in {"inplace", "moved"})
    /\ BytesFrame

\* vecPush calls until length == capacity, or until one of them does not
\* return: the first cell that does not fit in the block has the index
\* max(length, block / cell_size)
FillUp ==
    /\ alloc.pc = "live" /\ alloc.length # alloc.capacity
    /\ LET held  == Div32(alloc.block, alloc.cell_size)
           first == IF Lt32(alloc.length, held) THEN held ELSE alloc.length
           a0    == NotAsked(alloc, "fill")
       IN  alloc' = IF Lt32(alloc.length, alloc.capacity) /\ ~Lt32(first, alloc.capacity)
                    THEN [a0 EXCEPT !.length = alloc.capacity]
                    ELSE PushCell([a0 EXCEPT !.length = first])
    /\ pushOnly' = (pushOnly /\ Returned(alloc'))
    /\ BytesFrame

\* vecPop(vec)
PopBytes ==
    /\ alloc.pc = "live" /\ alloc.pops < MaxPops
    /\ LET a0 == [NotAsked(alloc, "pop") EXCEPT !.pops = alloc.pops + 1]
       IN  alloc' = IF ~Lt32(W(0, 0), alloc.length)
                    THEN [a0 EXCEPT !.pc = "abort"]
                    ELSE [a0 EXCEPT !.length = Dec32(alloc.length)]
    /\ pushOnly' = FALSE
    /\ BytesFrame

\* vecReserve(vec, new_capacity, do_clear); ra: what realloc answers.  The
\* memset goes through vec->data, the pointer realloc was given, before
\* vec->data and vec->capacity are assigned
ReserveBytes(new_capacity, do_clear, ra) ==
    /\ alloc.pc = "live"
    /\ LET bytes == Mul32(alloc.cell_size, new_capacity)
           off   == Mul32(alloc.cell_size, alloc.capacity)
           n     == Mul32(alloc.cell_size, Sub32(new_capacity, alloc.capacity))
           a1    == Asked(alloc, "reserve", new_capacity, bytes)
           a2    == [a1 EXCEPT !.block = bytes]
       IN  /\ ra \in AllocOutcomes(bytes)
           /\ alloc' = CASE alloc.released -> [a1 EXCEPT !.pc = "ub_realloc_freed"]
                         [] ra = "fail"    -> a1
                         [] ra = "freed"   -> [a1 EXCEPT !.block = W(0, 0),
                                                         !.released = TRUE]
                         [] do_clear /\ n # W(0, 0) /\ ~Within(off, n, bytes) ->
                              [a2 EXCEPT !.pc = "ub_oob_write"]
                         [] do_clear /\ n # W(0, 0) /\ ra = "moved" ->
                              [a2 EXCEPT !.pc = "ub_use_after_free"]
                         [] OTHER          -> [a2 EXCEPT !.capacity = new_capacity]
    /\ pushOnly' = FALSE
    /\ BytesFrame

\* vecFree(vec, purge_data)
FreeBytes(purge_data) ==
    /\ alloc.pc = "live"
    /\ LET a0 == NotAsked(alloc, "free")
       IN  alloc' = CASE alloc.released ->
                           IF purge_data
                              /\ Mul32(alloc.cell_size, alloc.capacity) # W(0, 0)
                           THEN [a0 EXCEPT !.pc = "ub_use_after_free"]
                           ELSE [a0 EXCEPT !.pc = "ub_double_free"]
                      [] purge_data /\ vecPurgeBytes(a0).pc # "live" -> vecPurgeBytes(a0)
                      [] OTHER -> [a0 EXCEPT !.pc = "freed"]
    /\ pushOnly' = FALSE
    /\ BytesFrame

InitBytes ==
    /\ \E cell_size \in CellSizes, capacity_opt \in Capacities :
          alloc = [pc |-> "start", op |-> "none", cell_size |-> cell_size,
                   capacity_opt |-> capacity_opt, capacity |-> W(0, 0),
                   length |-> W(0, 0), block |-> W(0, 0), released |-> FALSE,
                   requested |-> FALSE, asked |-> W(0, 0), bytes |-> NoRequest,
                   pushes |-> 0, pops |-> 0]
    /\ VecIdle /\ DictIdle /\ B64Idle /\ Md5Idle /\ ArgsIdle /\ StrIdle

NextBytes ==
    \/ \E do_clear \in BOOLEAN, ma \in MallocOutcomes : NewBytes(do_clear, ma)
    \/ \E ra \in {"fail", "freed", "inplace", "moved"} : PushBytes(ra)
    \/ FillUp
    \/ PopBytes
    \/ \E n \in ReserveCapacities, do_clear \in BOOLEAN :
          \E ra \in {"fail", "freed", "inplace", "moved"} : ReserveBytes(n, do_clear, ra)
    \/ \E purge_data \in BOOLEAN : FreeBytes(purge_data)

SpecBytes == InitBytes /\ [][NextBytes]_vars

\* the capacity vecNew starts from
FirstCapacity ==
    IF alloc.capacity_opt = W(0, 0) THEN W(0, DefaultCapacity) ELSE alloc.capacity_opt

\* c * 2^k for the smallest k >= 0 with c * 2^k >= n, for c > 0; fits: the
\* value is below 2^32, so a uint32_t field can hold it
RECURSIVE Doublings(_, _)
Doublings(c, n) ==
    IF ~Lt32(c, n) THEN [fits |-> TRUE, capacity |-> c]
    ELSE IF c.hi >= 32768 THEN [fits |-> FALSE, capacity |-> c]
    ELSE Doublings(Double32(c), n)

\* C23: after vecNew with requested capacity c (0 replaced by 4) and only
\* vecPush calls that went through, capacity is c * 2^k for the smallest
\* k >= 0 with c * 2^k >= length; a push at length = capacity doubles the
\* capacity and any other push leaves it unchanged.  The products are taken
\* over the integers: a capacity of 2^31 or more has no double in uint32_t.
C23_Doubling ==
    /\ [](pushOnly =>
             /\ Doublings(FirstCapacity, alloc.length).fits
             /\ alloc.capacity = Doublings(FirstCapacity, alloc.length).capacity)
    /\ [][(alloc'.op = "push" /\ pushOnly') =>
             IF alloc.length = alloc.capacity
             THEN alloc.capacity.hi < 32768 /\ alloc'.capacity = Double32(alloc.capacity)
             ELSE alloc'.capacity = alloc.capacity]_vars

\* cell_size * capacity over the integers, as three 16-bit limbs
WideMul(cell_size, capacity) ==
    LET p0  == Mul16(cell_size, capacity.lo)
        p1  == Mul16(cell_size, capacity.hi)
        mid == p0.hi + p1.lo
    IN  [top |-> p1.hi + (mid \div 65536), hi |-> mid % 65536, lo |-> p0.lo]

\* C30: the byte count vecNew, the growth step of vecPush and vecReserve
\* ask the allocator for is cell_size * capacity over the integers: the
\* product does not wrap modulo 2^32, and neither does the doubling of the
\* capacity.
C30_ByteCountExact ==
    [][alloc'.requested =>
          /\ WideMul(alloc'.cell_size, alloc'.asked) =
                [top |-> 0, hi |-> alloc'.bytes.hi, lo |-> alloc'.bytes.lo]
          /\ alloc'.op = "push" => alloc.capacity.hi < 32768]_vars

====
